---- MODULE Spec2Model ----
(***************************************************************************)
(* Model of the voice/stream media connection of Discord-video-stream      *)
(* (class BaseMediaConnection): control-channel lifecycle (start / stop /  *)
(* open / close / resume), heartbeat timer, and the DAVE protocol-version  *)
(* transition bookkeeping driven by text and binary gateway messages.      *)
(***************************************************************************)
EXTENDS Integers, Sequences, FiniteSets, Bags, TLC

(* ---------------------------- bounds ----------------------------------- *)
\* number of WebSocket objects that exist at one time (connecting, open,
\* closing, or closed and still referenced by this.ws)
MaxChannels == 2
\* DAVE protocol versions range over 0..MaxVersion
MaxVersion == 1
\* DAVE transition ids range over 0..MaxTransitionId
MaxTransitionId == 1

\* where only prepare and execute messages are followed (SpecTransitions),
\* transition ids range over 0..MaxPreparedId, so that two nonzero ids can
\* be pending in either order
MaxPreparedId == 2
\* this._mtu, 1200 in the source, scaled down; the NAL sizes tried are
\* taken relative to it (NalSizes)
Mtu == 5
\* NAL units per access unit
MaxNals == 3
\* sendFrame calls per track
MaxFrames == 3
\* Ready messages are numbered 1..MaxReady in arrival order
MaxReady == 2
\* frames each stream of a playStream call may send
MaxUnits == 4
\* the largest initial burst, in seconds
MaxBurst == 1
\* the pts distance of two frames of a stream, which is one scheduling tick
TickMs == 500
\* burstTime * 1000
MsPerSecond == 1000
\* calls made on one AnnexBBitstreamWriter before it is flushed
MaxWrites == 3
\* Exp-Golomb values written range over 0..MaxGolomb (and -MaxSigned..MaxSigned),
\* besides the larger ones of GolombValues
MaxGolomb == 4
MaxSigned == 2
\* bytes of a buffer handed to an AnnexBBitstreamReader as it is
MaxBufferLen == 4
\* readBits calls made on one reader
MaxReads == 3

Channels == 1..MaxChannels
Versions == 0..MaxVersion
TransitionIds == 0..MaxTransitionId
ReadyIds == 1..MaxReady
PreparedIds == 0..MaxPreparedId

\* close codes delivered with the WebSocket close event
CloseCodes == {1006, 3999, 4000, 4015, 4016}

NoArg == 0 - 1
NoChannel == 0

VARIABLES
    status,                 \* this.status {hasSession, hasToken, started, resuming}
    ws,                     \* this.ws: the current WebSocket (NoChannel = null)
    sockets,                \* every WebSocket object created so far
    interval,               \* this.interval holds a running heartbeat timer
    session_id,             \* this.session_id (0 = null)
    token,                  \* this.token (0 = null)
    daveSession,            \* this._daveSession
    daveProtocolVersion,    \* this._daveProtocolVersion
    davePendingTransitions, \* this._davePendingTransitions
    daveDowngraded,         \* this._daveDowngraded
    readyCalls,             \* per Ready message: the promise setProtocols() returned
                            \* and the invocations of this.ready it led to
    offersPending,          \* createOffer() promises not settled yet
    acksInFlight,           \* handleProtocolAck calls waiting in setRemoteDescription:
                            \* the bag of their dave_protocol_version
    codec,                  \* which packetizer class the track has
    sequence,               \* BaseMediaPacketizer._sequence
    timestamp,              \* BaseMediaPacketizer._timestamp, as 16-bit halves
    sent,                   \* the last sendFrame call: its input, the packets it
                            \* emitted, whether its promise rejected
    track,                  \* what the track carried before that call: the last
                            \* packet's sequence number, the timestamp at
                            \* construction, the frames and milliseconds sent
    writer,                 \* an AnnexBBitstreamWriter: _arr, _pendingByte, _bitOffset
    reader,                 \* an AnnexBBitstreamReader: _buffer, _byteOffset, _bitOffset
    bitLog,                 \* the calls made on the writer and on the reader, in
                            \* order, with what each returned or whether it threw
    sps,                    \* the syntax elements of the SPS NAL unit at hand
    rewritten,              \* what rewriteSPSVUI returned for it, and for each
                            \* buffer it returned in turn
    rtc,                    \* a WebRtcConnWrapper: the state of _webRtcConn, its
                            \* packetizers and their timestamps, its last call
    streamer,               \* a Streamer: the method that created the connection and
                            \* the promise it returned
    play,                   \* a playStream call: its options, its two streams, its
                            \* cleanup functions and the promise it waits on
    stopRequested,          \* stop() was called on an open socket and the client
                            \* has not called setSession/setTokens/start since
    ev                      \* the handler that ran last, what it sent, whether it threw

vars == <<status, ws, sockets, interval, session_id, token, daveSession,
          daveProtocolVersion, davePendingTransitions, daveDowngraded,
          readyCalls, offersPending, acksInFlight, codec, sequence, timestamp,
          sent, track, writer, reader, bitLog, sps, rewritten, rtc, streamer, play,
          stopRequested, ev>>

connVars == <<status, ws, sockets, interval, session_id, token, stopRequested>>
daveVars == <<daveSession, daveProtocolVersion, davePendingTransitions, daveDowngraded>>
ackVars == <<readyCalls, offersPending, acksInFlight>>
\* what the lifecycle and the DAVE message handlers never touch:
\* ackVars and the packetizer of one track
packetizerVars == <<codec, sequence, timestamp, sent, track>>
bitVars == <<writer, reader, bitLog>>
spsVars == <<sps, rewritten>>
rtcVars == <<rtc>>
appVars == <<streamer, play>>
processingVars == <<bitVars, spsVars, rtcVars, appVars>>
restVars == <<ackVars, packetizerVars, processingVars>>

(* ------------------------- WebSocket objects --------------------------- *)
\* readyState of a WebSocket; "NONE" marks a slot that holds no object (none
\* created yet, or a closed one that this.ws no longer references).
\* established: the handshake completed (the open event was emitted).
\* byReconnect: the close handler's start() created it.
NoSocket == [readyState |-> "NONE", established |-> FALSE, byReconnect |-> FALSE]

\* the slots a new WebSocket can take: free ones, never the slot of the object
\* this.ws references now
FreeSlots(w, socks) == {c \in Channels : c # w /\ socks[c].readyState = "NONE"}

CanCreateSocket == FreeSlots(ws, sockets) # {}

\* objects that are closed and no longer referenced are dropped
Collect(w, socks) ==
    [c \in Channels |-> IF c # w /\ socks[c].readyState = "CLOSED" THEN NoSocket ELSE socks[c]]

\* the readyState the code reads through this.ws?.readyState
WsIsOpen(w, socks) == w # NoChannel /\ socks[w].readyState = "OPEN"

\* a socket that is neither unused nor closed
Live(c) == sockets[c].readyState \in {"CONNECTING", "OPEN", "CLOSING"}

(* --------------------------- sending ----------------------------------- *)
Msg(op, arg, ch) == [op |-> op, arg |-> arg, ch |-> ch]

\* sendOpcode / sendOpcodeBinary: dropped unless this.ws is OPEN
sendOpcode(out, w, socks, op, arg) ==
    IF ~WsIsOpen(w, socks) THEN out ELSE Append(out, Msg(op, arg, w))

\* op: the handler, ch: the socket that delivered the event, arg and val: its
\* arguments, branch: the branch the handler took, out: what it sent,
\* threw: an exception escaped it, calls: the process calls it made on the
\* secure session
Event(op, ch, arg, val, branch, out, threw) ==
    [op |-> op, ch |-> ch, arg |-> arg, val |-> val, branch |-> branch,
     out |-> out, threw |-> threw, calls |-> << >>]

(* --------------------------- secure session ---------------------------- *)
\* this._daveSession is undefined until initDave() creates it.  Of the
\* external DAVESession only the calls made on it are recorded: the version
\* it was (re)initialised with, the last lifecycle call, and the window of
\* the last setPassthroughMode(true, n) call (0: never called).
NoSession == [exists |-> FALSE, version |-> 0, call |-> "none", passthrough |-> 0]

\* A Ready message not received yet.  promise: the state of the promise
\* setProtocols() returned ("none": not created, "pending": its once-listener
\* for select_protocol_ack is registered, "resolved"); calls: how often
\* this.ready was invoked for this Ready; acked: a handleProtocolAck has
\* captured the version and run initDave() since this Ready was handled.
NoReady == [promise |-> "none", calls |-> 0, acked |-> FALSE]

InitConnection ==
    /\ status = [hasSession |-> FALSE, hasToken |-> FALSE,
                 started |-> FALSE, resuming |-> FALSE]
    /\ ws = NoChannel
    /\ sockets = [c \in Channels |-> NoSocket]
    /\ interval = FALSE
    /\ session_id = 0
    /\ token = 0
    /\ daveSession = NoSession
    /\ daveProtocolVersion = 0
    /\ davePendingTransitions = << >>
    /\ daveDowngraded = FALSE
    /\ readyCalls = [r \in ReadyIds |-> NoReady]
    /\ offersPending = 0
    /\ acksInFlight = EmptyBag
    /\ stopRequested = FALSE
    /\ ev = Event("init", NoChannel, NoArg, NoArg, "", << >>, FALSE)

\* the 32-bit value hi * 2^16 + lo
Word32(hi, lo) == [hi |-> hi, lo |-> lo]

NoFrame == [nalus |-> << >>, frametime |-> 0, packets |-> << >>, threw |-> FALSE]

\* new BaseMediaPacketizer(...): _sequence and _timestamp are 0 right after
\* construction; seq and ts are what they have become on a track that has
\* been sending for a while
InitPacketizer(c, seq, ts) ==
    /\ codec = c
    /\ sequence = seq
    /\ timestamp = ts
    /\ sent = NoFrame
    /\ track = [lastSeq |-> NoArg, timestamp0 |-> ts, frames |-> 0, ms |-> 0]

\* new AnnexBBitstreamWriter()
NewWriter == [arr |-> << >>, pendingByte |-> 0, bitOffset |-> 0]

\* new AnnexBBitstreamReader(buffer)
NewReader(buffer) == [buffer |-> buffer, byteOffset |-> 0, bitOffset |-> 0]

\* a writer nothing was written to yet and no reader
InitBitstream ==
    /\ writer = NewWriter
    /\ reader = NewReader(<< >>)
    /\ bitLog = [phase |-> "writing", written |-> << >>, read |-> << >>]

\* an SPS no call was made on
BaselineSps ==
    [profile_idc |-> 66, scaling |-> "absent", log2_max_frame_num_minus4 |-> 0,
     pic_order_cnt_type |-> 0,
     offset_for_non_ref_pic |-> 0 - 2, max_num_ref_frames |-> 1,
     pic_width_in_mbs_minus1 |-> 1, frame_mbs_only_flag |-> 1,
     frame_cropping_flag |-> 0, vui_parameters_present_flag |-> 0, vui |-> {},
     restriction |-> "absent"]

\* rewriteSPSVUI was not called
NoRewrite == sps = BaselineSps /\ rewritten = << >>

\* a call on the wrapper: the frame it was given, the messages it sent on
\* the tracks, the calls it made on the secure session, whether it threw, and
\* the RTP timestamp of its track when it was made
NoCall == [op |-> "none", frame |-> << >>, sent |-> << >>, encrypts |-> 0,
           threw |-> FALSE, timestamp0 |-> 0]

\* new WebRtcConnWrapper(mediaConn): no PeerConnection, no packetizer; frames
\* counts the frames sent on the tracks
NewWrapper ==
    [webRtcConn |-> "none", audioPacketizer |-> FALSE, videoPacketizer |-> FALSE,
     videoCodec |-> "none", audioTimestamp |-> 0, videoTimestamp |-> 0,
     frames |-> 0, last |-> NoCall]

NoWebRtc == rtc = NewWrapper

\* options.type
StreamTypes == {"go-live", "camera"}

\* options.readrateInitialBurst: absent, zero, or a number of seconds
BurstOptions == {NoArg} \cup 0..MaxBurst

\* new Streamer(client): joinVoice and createStream not called yet
NewStreamer == [method |-> "none", promise |-> "none"]

\* a stream as new VideoStream(udp) / new AudioStream(udp) make it: sync on,
\* pacing on (noSleep false), nothing emitted
NewStream == [sync |-> TRUE, noSleep |-> FALSE, pts |-> 0, ended |-> FALSE]

\* playStream not called
NoPlay ==
    [phase |-> "none", type |-> "none", createStream |-> "none", audio |-> FALSE,
     readrateInitialBurst |-> 0, streamPreview |-> FALSE,
     vStream |-> NewStream, aStream |-> NewStream, stopBurst |-> FALSE,
     decoder |-> "none", cleanupFuncs |-> << >>, ran |-> << >>, cleanedUp |-> FALSE,
     aborted |-> FALSE, promise |-> "none"]

NoApp == streamer = NewStreamer /\ play = NoPlay

Init ==
    /\ InitConnection /\ InitPacketizer("opus", 0, Word32(0, 0))
    /\ InitBitstream /\ NoRewrite /\ NoWebRtc /\ NoApp

(* ------------------------ connection lifecycle ------------------------- *)
Conn(st, w, socks) == [status |-> st, ws |-> w, sockets |-> socks]

\* start() without the early return on status.started
WouldStart_IgnoringStarted(st) == st.hasSession /\ st.hasToken

\* a guard of start() that does not ask for the token
WouldStart_WithoutToken(st) == st.hasSession /\ ~st.started

\* the guard of start(): both credentials gathered and not started yet
WouldStart(st) == st.hasSession /\ st.hasToken /\ ~st.started

\* start(): opens a new WebSocket when the guard passes, else does nothing.
\* reconnect tells whether the close handler made the call.
start(st, w, socks, reconnect) ==
    IF WouldStart(st)
    THEN LET new == CHOOSE c \in FreeSlots(w, socks) :
                         \A o \in FreeSlots(w, socks) : c <= o
         IN Conn([st EXCEPT !.started = TRUE], new,
                 Collect(new, [socks EXCEPT ![new] = [readyState |-> "CONNECTING",
                                                      established |-> FALSE,
                                                      byReconnect |-> reconnect]]))
    ELSE Conn(st, w, socks)

\* setSession(session_id)
setSession(id) ==
    LET st == [status EXCEPT !.hasSession = TRUE]
        c  == start(st, ws, sockets, FALSE)
    IN /\ WouldStart(st) => CanCreateSocket
       /\ session_id' = id
       /\ status' = c.status /\ ws' = c.ws /\ sockets' = c.sockets
       /\ ev' = Event("setSession", NoChannel, NoArg, NoArg,
                      IF WouldStart(st) THEN "opened" ELSE "noop", << >>, FALSE)
       /\ stopRequested' = FALSE
       /\ UNCHANGED <<interval, token, daveVars, restVars>>

\* setTokens(server, token)
setTokens(tok) ==
    LET st == [status EXCEPT !.hasToken = TRUE]
        c  == start(st, ws, sockets, FALSE)
    IN /\ WouldStart(st) => CanCreateSocket
       /\ token' = tok
       /\ status' = c.status /\ ws' = c.ws /\ sockets' = c.sockets
       /\ ev' = Event("setTokens", NoChannel, NoArg, NoArg,
                      IF WouldStart(st) THEN "opened" ELSE "noop", << >>, FALSE)
       /\ stopRequested' = FALSE
       /\ UNCHANGED <<interval, session_id, daveVars, restVars>>

\* a direct call of the public start()
Start ==
    LET c == start(status, ws, sockets, FALSE)
    IN /\ WouldStart(status) => CanCreateSocket
       /\ status' = c.status /\ ws' = c.ws /\ sockets' = c.sockets
       /\ ev' = Event("start", NoChannel, NoArg, NoArg,
                      IF WouldStart(status) THEN "opened" ELSE "noop", << >>, FALSE)
       /\ stopRequested' = FALSE
       /\ UNCHANGED <<interval, session_id, token, daveVars, restVars>>

\* WebSocket.close(): CONNECTING and OPEN sockets start closing, others stay
wsClose(w, socks) ==
    IF w # NoChannel /\ socks[w].readyState \in {"CONNECTING", "OPEN"}
    THEN [socks EXCEPT ![w].readyState = "CLOSING"]
    ELSE socks

\* stop(): this.ws?.close()
stop(st, w, socks, iv) ==
    [status |-> st, sockets |-> wsClose(w, socks), interval |-> iv]

Stop ==
    LET r == stop(status, ws, sockets, interval)
    IN /\ status' = r.status /\ sockets' = r.sockets /\ interval' = r.interval
       /\ ev' = Event("stop", ws, NoArg, NoArg,
                      IF WsIsOpen(ws, sockets) THEN "open" ELSE "notopen", << >>, FALSE)
       /\ stopRequested' = (stopRequested \/ WsIsOpen(ws, sockets))
       /\ UNCHANGED <<ws, session_id, token, daveVars, restVars>>

\* identify() / resume(): throw on missing credentials, else send the
\* handshake.  serverId is an abstract getter; the subclasses return an id
\* known before setSession() is called, so only session_id and token can
\* be missing.
handshake(op, w, socks) ==
    IF session_id = 0 \/ token = 0
    THEN [out |-> << >>, threw |-> TRUE]
    ELSE [out |-> sendOpcode(<< >>, w, socks, op, NoArg), threw |-> FALSE]

\* an open handler that sends Resume and leaves the resuming flag set
onOpen_KeepingFlag(st) ==
    [status |-> st, op |-> IF st.resuming THEN "RESUME" ELSE "IDENTIFY"]

\* ws.on("open"): Resume when resuming (clearing the flag), else Identify
onOpen(st) ==
    IF st.resuming
    THEN [status |-> [st EXCEPT !.resuming = FALSE], op |-> "RESUME"]
    ELSE [status |-> st, op |-> "IDENTIFY"]

WsOpen(c) ==
    /\ sockets[c].readyState = "CONNECTING"
    /\ LET socks == [sockets EXCEPT ![c].readyState = "OPEN", ![c].established = TRUE]
           o     == onOpen(status)
           h     == handshake(o.op, ws, socks)
       IN /\ sockets' = socks
          /\ status' = o.status
          /\ ev' = Event("open", c, NoArg, NoArg, o.op, h.out, h.threw)
    /\ UNCHANGED <<ws, interval, session_id, token, stopRequested, daveVars, restVars>>

ResumableCode == 4015
FirstTerminalCode == 4000

\* a resumable range that takes in the codes 4000..4015
canResume_UpTo4015(code) == code <= ResumableCode

canResume(code) == code = ResumableCode \/ code < FirstTerminalCode

\* ws.on("close"): clear the heartbeat, started := false, and reconnect with
\* the resuming flag when the code allows it and the connection was started
onClose(st, w, socks, code) ==
    LET wasStarted == st.started
        st1 == [st EXCEPT !.started = FALSE]
    IN IF canResume(code) /\ wasStarted
       THEN start([st1 EXCEPT !.resuming = TRUE], w, socks, TRUE)
       ELSE Conn(st1, w, socks)

\* the close event of socket c.  A socket whose handshake never completed
\* closes with 1006; an established one with whatever code the peer gives.
WsClose(c, code) ==
    /\ Live(c)
    /\ ~sockets[c].established => code = 1006
    /\ LET socks == Collect(ws, [sockets EXCEPT ![c].readyState = "CLOSED"])
           r     == onClose(status, ws, socks, code)
       IN /\ (canResume(code) /\ status.started) => FreeSlots(ws, socks) # {}
          /\ status' = r.status /\ ws' = r.ws /\ sockets' = r.sockets
          /\ interval' = FALSE
          /\ ev' = Event("close", c, code, NoArg,
                         IF r.ws # ws THEN "reconnect" ELSE "terminal", << >>, FALSE)
    /\ UNCHANGED <<session_id, token, stopRequested, daveVars, restVars>>

\* a socket whose message events can still fire: the handshake completed and
\* the close event has not been emitted.  After close() the socket is CLOSING
\* and still delivers what the peer sent before its close frame.
Receiving(c) == sockets[c].established /\ sockets[c].readyState \in {"OPEN", "CLOSING"}

\* setupHeartbeat(interval): replace the running timer
setupHeartbeat(iv) == TRUE

\* HELLO
Hello(c) ==
    /\ Receiving(c)
    /\ interval' = setupHeartbeat(interval)
    /\ ev' = Event("HELLO", c, NoArg, NoArg, "", << >>, FALSE)
    /\ UNCHANGED <<status, ws, sockets, session_id, token, stopRequested, daveVars, restVars>>

\* a tick of the heartbeat timer: sendOpcode(HEARTBEAT), errors swallowed
HeartbeatTick ==
    /\ interval
    /\ ev' = Event("tick", NoChannel, NoArg, NoArg, "",
                   sendOpcode(<< >>, ws, sockets, "HEARTBEAT", NoArg), FALSE)
    /\ UNCHANGED <<connVars, daveVars, restVars>>

\* RESUMED: started := true
onResumed(st) == [st EXCEPT !.started = TRUE]

Resumed(c) ==
    /\ Receiving(c)
    /\ status' = onResumed(status)
    /\ ev' = Event("RESUMED", c, NoArg, NoArg, "", << >>, FALSE)
    /\ UNCHANGED <<ws, sockets, interval, session_id, token, stopRequested, daveVars, restVars>>

(* ---------------- the connection over UDP (MediaUdp) -------------------- *)
\* The variant of BaseMediaConnection that sends media through MediaUdp has
\* the same fields, start(), open handler and message handlers; its stop()
\* and its close handler differ.

\* stop(): clear the heartbeat, started := false, this.ws?.close()
stopUdp(st, w, socks, iv) ==
    [status |-> [st EXCEPT !.started = FALSE], sockets |-> wsClose(w, socks),
     interval |-> FALSE]

StopUdp ==
    LET r == stopUdp(status, ws, sockets, interval)
    IN /\ status' = r.status /\ sockets' = r.sockets /\ interval' = r.interval
       /\ ev' = Event("stop", ws, NoArg, NoArg,
                      IF WsIsOpen(ws, sockets) THEN "open" ELSE "notopen", << >>, FALSE)
       /\ stopRequested' = (stopRequested \/ WsIsOpen(ws, sockets))
       /\ UNCHANGED <<ws, session_id, token, daveVars, restVars>>

\* ws.on("close"): started := false and reconnect as onClose does; the
\* heartbeat timer is left as it is
WsCloseUdp(c, code) ==
    /\ Live(c)
    /\ ~sockets[c].established => code = 1006
    /\ LET socks == Collect(ws, [sockets EXCEPT ![c].readyState = "CLOSED"])
           r     == onClose(status, ws, socks, code)
       IN /\ (canResume(code) /\ status.started) => FreeSlots(ws, socks) # {}
          /\ status' = r.status /\ ws' = r.ws /\ sockets' = r.sockets
          /\ ev' = Event("close", c, code, NoArg,
                         IF r.ws # ws THEN "reconnect" ELSE "terminal", << >>, FALSE)
    /\ UNCHANGED <<interval, session_id, token, stopRequested, daveVars, restVars>>

(* ------------------------- DAVE bookkeeping ---------------------------- *)
PassthroughOnReset == 10
PassthroughOnUpgrade == 10
PassthroughOnDowngrade == 120

\* Map.set / Map.delete on this._davePendingTransitions
MapSet(m, k, v) == [x \in DOMAIN m \cup {k} |-> IF x = k THEN v ELSE m[x]]
MapDelete(m, k) == [x \in DOMAIN m \ {k} |-> m[x]]

\* The DAVE fields a message handler works on, with what it sent so far,
\* whether an exception escaped it, and the branch it took.
Dave ==
    [ver |-> daveProtocolVersion, sess |-> daveSession,
     pend |-> davePendingTransitions, down |-> daveDowngraded,
     out |-> << >>, threw |-> FALSE, branch |-> "", calls |-> << >>]

\* sendOpcode / sendOpcodeBinary from inside a message handler
Send(d, op, arg) == [d EXCEPT !.out = sendOpcode(@, ws, sockets, op, arg)]

\* this._daveSession?.setPassthroughMode(true, n)
setPassthroughMode(sess, n) ==
    IF sess.exists THEN [sess EXCEPT !.passthrough = n] ELSE sess

\* an initDave() that constructs a new session even when one exists
initDave_AlwaysNew(d) ==
    IF d.ver # 0
    THEN Send([d EXCEPT !.sess = [exists |-> TRUE, version |-> d.ver,
                                  call |-> "new", passthrough |-> 0]],
              "MLS_KEY_PACKAGE", NoArg)
    ELSE IF d.sess.exists
         THEN [d EXCEPT !.sess = setPassthroughMode([d.sess EXCEPT !.call = "reset"],
                                                    PassthroughOnReset)]
         ELSE d

\* initDave()
initDave(d) ==
    IF d.ver # 0
    THEN LET sess == IF d.sess.exists
                     THEN [d.sess EXCEPT !.version = d.ver, !.call = "reinit"]
                     ELSE [exists |-> TRUE, version |-> d.ver,
                           call |-> "new", passthrough |-> 0]
         IN Send([d EXCEPT !.sess = sess], "MLS_KEY_PACKAGE", NoArg)
    ELSE IF d.sess.exists
         THEN [d EXCEPT !.sess = setPassthroughMode([d.sess EXCEPT !.call = "reset"],
                                                    PassthroughOnReset)]
         ELSE d

\* an invalid-commit path that reports but does not call initDave()
processInvalidCommit_NoInitDave(d, transitionId) ==
    Send(d, "MLS_INVALID_COMMIT_WELCOME", transitionId)

\* processInvalidCommit(transitionId)
processInvalidCommit(d, transitionId) ==
    initDave(Send(d, "MLS_INVALID_COMMIT_WELCOME", transitionId))

\* a switch-over whose upgrade branch is missing: the flag is never cleared
executeKnownTransition_NoUpgradeBranch(d, transitionId) ==
    LET newVersion == d.pend[transitionId]
        oldVersion == d.ver
        d1 == [d EXCEPT !.ver = newVersion]
        d2 == IF oldVersion # newVersion /\ newVersion = 0
              THEN [d1 EXCEPT !.down = TRUE, !.branch = "downgraded"]
              ELSE [d1 EXCEPT !.branch = "executed"]
    IN [d2 EXCEPT !.pend = MapDelete(@, transitionId)]

\* executePendingTransition(transitionId) past the lookup: switch the active
\* version over, track downgrade and upgrade, drop the pending entry
executeKnownTransition(d, transitionId) ==
    LET newVersion == d.pend[transitionId]
        oldVersion == d.ver
        d1 == [d EXCEPT !.ver = newVersion]
        d2 == IF oldVersion # newVersion /\ newVersion = 0
              THEN [d1 EXCEPT !.down = TRUE, !.branch = "downgraded"]
              ELSE IF transitionId > 0 /\ d1.down
                   THEN [d1 EXCEPT !.down = FALSE, !.branch = "upgraded",
                            !.sess = setPassthroughMode(@, PassthroughOnUpgrade)]
                   ELSE [d1 EXCEPT !.branch = "executed"]
    IN [d2 EXCEPT !.pend = MapDelete(@, transitionId)]

\* a lookup without the early return: a missing entry reads as version 0
executePendingTransition_NoEarlyReturn(d, transitionId) ==
    IF transitionId \notin DOMAIN d.pend
    THEN executeKnownTransition([d EXCEPT !.pend = MapSet(@, transitionId, 0)],
                                transitionId)
    ELSE executeKnownTransition(d, transitionId)

\* executePendingTransition(transitionId)
executePendingTransition(d, transitionId) ==
    IF transitionId \notin DOMAIN d.pend
    THEN [d EXCEPT !.branch = "unrecognized"]
    ELSE executeKnownTransition(d, transitionId)

\* a prepare handler without the special case for transition id 0
onPrepareTransition_NoImmediate(d, transitionId, version) ==
    Send([d EXCEPT !.pend = MapSet(@, transitionId, version),
                   !.sess = IF version = 0
                            THEN setPassthroughMode(@, PassthroughOnDowngrade)
                            ELSE @,
                   !.branch = "pending"],
         "DAVE_TRANSITION_READY", transitionId)

\* a prepare handler that switches over at once for every transition id
onPrepareTransition_AlwaysImmediate(d, transitionId, version) ==
    executePendingTransition([d EXCEPT !.pend = MapSet(@, transitionId, version)],
                             transitionId)

\* DAVE_PREPARE_TRANSITION {transition_id, protocol_version}
onPrepareTransition(d, transitionId, version) ==
    LET d1 == [d EXCEPT !.pend = MapSet(@, transitionId, version)]
    IN IF transitionId = 0
       THEN executePendingTransition(d1, transitionId)
       ELSE Send([d1 EXCEPT !.sess = IF version = 0
                                      THEN setPassthroughMode(@, PassthroughOnDowngrade)
                                      ELSE @,
                            !.branch = "pending"],
                 "DAVE_TRANSITION_READY", transitionId)

\* DAVE_PREPARE_EPOCH {epoch, protocol_version}
onPrepareEpoch(d, epoch, version) ==
    IF epoch = 1 THEN initDave([d EXCEPT !.ver = version]) ELSE d

\* this._daveSession!.processCommit(...) / processWelcome(...): the call is
\* made when there is a session to make it on
Calling(d, method) ==
    IF d.sess.exists THEN [d EXCEPT !.calls = Append(@, method)] ELSE d

\* the commit / welcome cases of handleBinaryMessages: accepted tells whether
\* processCommit / processWelcome returned; a call on an undefined session
\* throws inside the try block like a rejection does
onCommitOrWelcome(d, transitionId, accepted) ==
    IF d.sess.exists /\ accepted
    THEN IF transitionId # 0
         THEN Send([d EXCEPT !.pend = MapSet(@, transitionId, d.ver),
                             !.branch = "accepted"],
                   "DAVE_TRANSITION_READY", transitionId)
         ELSE [d EXCEPT !.branch = "accepted"]
    ELSE processInvalidCommit([d EXCEPT !.branch = "rejected"], transitionId)

\* the MLS_EXTERNAL_SENDER case: this._daveSession?.setExternalSender(...)
onExternalSender(d, accepted) ==
    IF d.sess.exists /\ ~accepted
    THEN [d EXCEPT !.threw = TRUE, !.branch = "rejected"]
    ELSE [d EXCEPT !.branch = IF d.sess.exists THEN "accepted" ELSE "nosession"]

\* the MLS_PROPOSALS case: this._daveSession!.processProposals(...), outside
\* any try block; result is what the session returns: "none", "commit" or
\* "commit+welcome"
onProposals(d, accepted, result) ==
    IF ~d.sess.exists
    THEN [d EXCEPT !.threw = TRUE, !.branch = "nosession"]
    ELSE IF ~accepted
         THEN [d EXCEPT !.threw = TRUE, !.branch = "rejected"]
         ELSE IF result # "none"
              THEN Send([d EXCEPT !.branch = "accepted"], "MLS_COMMIT_WELCOME", NoArg)
              ELSE [d EXCEPT !.branch = "accepted"]

\* handleBinaryMessages(msg): the switch on the binary opcode
handleBinaryMessages(d, op, transitionId, accepted, result) ==
    CASE op = "MLS_EXTERNAL_SENDER" -> onExternalSender(d, accepted)
      [] op = "MLS_PROPOSALS" -> onProposals(d, accepted, result)
      [] op = "MLS_ANNOUNCE_COMMIT_TRANSITION" ->
             onCommitOrWelcome(Calling(d, "processCommit"), transitionId, accepted)
      [] op = "MLS_WELCOME" ->
             onCommitOrWelcome(Calling(d, "processWelcome"), transitionId, accepted)
      [] OTHER -> d

\* handleBinaryMessages(msg) of the connection over UDP: the case of
\* MLS_ANNOUNCE_COMMIT_TRANSITION does not end in a break, and the statements
\* of the MLS_WELCOME case run after it on the same message; welcomed tells
\* whether processWelcome returned
handleBinaryMessagesUdp(d, op, transitionId, accepted, welcomed, result) ==
    IF op = "MLS_ANNOUNCE_COMMIT_TRANSITION"
    THEN onCommitOrWelcome(
             Calling(onCommitOrWelcome(Calling(d, "processCommit"), transitionId, accepted),
                     "processWelcome"),
             transitionId, welcomed)
    ELSE handleBinaryMessages(d, op, transitionId, accepted, result)

BinaryOps == {"MLS_EXTERNAL_SENDER", "MLS_PROPOSALS",
              "MLS_ANNOUNCE_COMMIT_TRANSITION", "MLS_WELCOME"}

\* a message handler's result written back to the connection
Handled(d, op, c, arg, val) ==
    /\ daveProtocolVersion' = d.ver
    /\ daveSession' = d.sess
    /\ davePendingTransitions' = d.pend
    /\ daveDowngraded' = d.down
    /\ ev' = [Event(op, c, arg, val, d.branch, d.out, d.threw) EXCEPT !.calls = d.calls]
    /\ UNCHANGED <<connVars, restVars>>

PrepareTransition(c, transitionId, version) ==
    /\ Receiving(c)
    /\ Handled(onPrepareTransition(Dave, transitionId, version),
               "DAVE_PREPARE_TRANSITION", c, transitionId, version)

ExecuteTransition(c, transitionId) ==
    /\ Receiving(c)
    /\ Handled(executePendingTransition(Dave, transitionId),
               "DAVE_EXECUTE_TRANSITION", c, transitionId, NoArg)

PrepareEpoch(c, epoch, version) ==
    /\ Receiving(c)
    /\ Handled(onPrepareEpoch(Dave, epoch, version), "DAVE_PREPARE_EPOCH", c, epoch, version)

BinaryMessage(c, op, transitionId, accepted, result) ==
    /\ Receiving(c)
    /\ op \in {"MLS_EXTERNAL_SENDER", "MLS_PROPOSALS"} => transitionId = 0
    /\ op # "MLS_PROPOSALS" => result = "none"
    /\ ~accepted => result = "none"
    /\ Handled(handleBinaryMessages(Dave, op, transitionId, accepted, result),
               op, c, IF op \in {"MLS_EXTERNAL_SENDER", "MLS_PROPOSALS"}
                      THEN NoArg ELSE transitionId, NoArg)

\* what the message event of a WebSocket hands over as the data of a binary
\* message: a Buffer (binaryType "nodebuffer", which a socket has unless it
\* is set otherwise), an ArrayBuffer, or an array of Buffers
BinaryData == {"Buffer", "ArrayBuffer", "Array"}

\* a binary message on the connection over UDP: data that is a Buffer is
\* not passed on to handleBinaryMessages
BinaryMessageUdp(c, data, op, transitionId, accepted, welcomed, result) ==
    /\ Receiving(c)
    /\ op \in {"MLS_EXTERNAL_SENDER", "MLS_PROPOSALS"} => transitionId = 0
    /\ op # "MLS_PROPOSALS" => result = "none"
    /\ ~accepted => result = "none"
    /\ op # "MLS_ANNOUNCE_COMMIT_TRANSITION" => welcomed = accepted
    /\ data = "Buffer" => accepted /\ welcomed /\ result = "none"
    /\ Handled(IF data = "Buffer" THEN [Dave EXCEPT !.branch = "dropped"]
               ELSE handleBinaryMessagesUdp(Dave, op, transitionId, accepted, welcomed,
                                            result),
               op, c, IF op \in {"MLS_EXTERNAL_SENDER", "MLS_PROPOSALS"}
                      THEN NoArg ELSE transitionId, NoArg)

(* ------------------------------ packetizers ---------------------------- *)
max_int16bit == 65536

Codecs == {"opus", "h264", "h265"}
VideoCodecs == {"h264", "h265"}

\* frame durations in milliseconds
Frametimes == {20, 33}

\* the NAL header: one byte for H.264, two for H.265
HeaderLength(c) == IF c = "h265" THEN 2 ELSE 1

\* the NAL sizes tried: a bare header, just below the MTU (two of them reach
\* it), the MTU, and sizes that fragment into one, two and three chunks
NalSizes(c) ==
    {HeaderLength(c), Mtu - 1, Mtu, Mtu + 1, Mtu + HeaderLength(c) + 1,
     2 * Mtu + HeaderLength(c) + 1}

\* the access units tried, as the NAL sizes splitNalu(frame) yields
AccessUnits(c) ==
    UNION {[1..n -> NalSizes(c)] : n \in 1..MaxNals}

\* the access units sent when it is the sequence of calls that matters: a
\* header-only NAL, a NAL of three fragments, and pairs of them
TrackUnits(c) ==
    UNION {[1..n -> {HeaderLength(c), 2 * Mtu + HeaderLength(c) + 1}] : n \in 1..2}

\* One byte of a buffer.  A byte of the input is known by the NAL it belongs
\* to and its position there; a byte the packetizer computes by what it is:
\* an aggregation header byte, a byte of a 16-bit length prefix (a: its
\* value), a byte of an FU indicator, or the FU header byte (b: its S and E
\* bits, 128 and 64).
Byte(src, a, b) == [src |-> src, a |-> a, b |-> b]

\* NAL number id of an access unit, size bytes long
Nalu(id, size) == [pos \in 1..size |-> Byte("nal", id, pos)]

\* splitHeader(nalu): [naluHeader, naluData]
splitHeader(c, nalu) ==
    [header |-> SubSeq(nalu, 1, HeaderLength(c)),
     data   |-> SubSeq(nalu, HeaderLength(c) + 1, Len(nalu))]

Min(a, b) == IF a <= b THEN a ELSE b

\* a partition that gives the last chunk to the one before it when it is
\* shorter than the MTU
RECURSIVE partitionDataMTUSizedChunks_MergedTail(_)
partitionDataMTUSizedChunks_MergedTail(data) ==
    IF Len(data) = 0 THEN << >>
    ELSE IF Len(data) < 2 * Mtu THEN << data >>
    ELSE << SubSeq(data, 1, Mtu) >>
         \o partitionDataMTUSizedChunks_MergedTail(SubSeq(data, Mtu + 1, Len(data)))

\* partitionDataMTUSizedChunks(data): chunks of this.mtu bytes, the last one
\* shorter when the length is no multiple
RECURSIVE partitionDataMTUSizedChunks(_)
partitionDataMTUSizedChunks(data) ==
    IF Len(data) = 0 THEN << >>
    ELSE LET size == Min(Len(data), Mtu)
         IN << SubSeq(data, 1, size) >>
            \o partitionDataMTUSizedChunks(SubSeq(data, size + 1, Len(data)))

\* a sequence counter that skips 0 when it wraps
getNewSequence_SkippingZero(seq) ==
    IF seq + 1 = max_int16bit THEN 1 ELSE seq + 1

\* getNewSequence(): this._sequence = (this._sequence + 1) % max_int16bit
getNewSequence(seq) == (seq + 1) % max_int16bit

\* incrementTimestamp(incrementBy): (this._timestamp + incrementBy) % 2^32,
\* computed on the two 16-bit halves
incrementTimestamp(ts, incrementBy) ==
    LET lo == ts.lo + (incrementBy % max_int16bit)
        hi == ts.hi + (incrementBy \div max_int16bit) + (lo \div max_int16bit)
    IN Word32(hi % max_int16bit, lo % max_int16bit)

\* The packetizer while a sendFrame call runs: its counters and the packets
\* the call has handed to sendPacket so far.
Packetizer == [sequence |-> sequence, timestamp |-> timestamp, packets |-> << >>]

\* makeRtpHeader(isLastPacket), new RtpPacket(header, payload), sendPacket:
\* kind tells which code path built the payload
Emit(p, marker, kind, payload) ==
    LET seq == getNewSequence(p.sequence)
    IN [p EXCEPT !.sequence = seq,
                 !.packets = Append(@, [sequenceNumber |-> seq,
                                        timestamp |-> p.timestamp,
                                        marker |-> marker,
                                        kind |-> kind,
                                        payload |-> payload])]

\* makeAggregateUnitHeader(nalus): one byte (STAP-A) for H.264, two (AP) for
\* H.265
makeAggregateUnitHeader(c, nalus) ==
    [i \in 1..HeaderLength(c) |-> Byte("aggregate", 0, i)]

\* size.writeUint16BE(nalu.length)
LengthPrefix(nalu) ==
    << Byte("length", (Len(nalu) \div 256) % 256, 1), Byte("length", Len(nalu) % 256, 2) >>

RECURSIVE Prefixed(_)
Prefixed(nalus) ==
    IF nalus = << >> THEN << >>
    ELSE LengthPrefix(Head(nalus)) \o Head(nalus) \o Prefixed(Tail(nalus))

\* _sendNonFragmented(nalus, isLastNal)
sendNonFragmented(p, c, nalus, isLastNal) ==
    IF Len(nalus) = 1
    THEN Emit(p, isLastNal, "single", nalus[1])
    ELSE Emit(p, isLastNal, "aggregate", makeAggregateUnitHeader(c, nalus) \o Prefixed(nalus))

\* makeFragmentationUnitHeader(isFirstPacket, isLastPacket, naluHeader): the
\* FU indicator made from the NAL header (one byte for H.264, two for H.265)
\* and the FU header byte, whose start bit wins when both flags hold
makeFragmentationUnitHeader(c, isFirstPacket, isLastPacket, naluHeader) ==
    [i \in 1..HeaderLength(c) |-> Byte("fu-indicator", naluHeader[1].a, i)]
    \o << Byte("fu-header", naluHeader[1].a,
               IF isFirstPacket THEN 128 ELSE IF isLastPacket THEN 64 ELSE 0) >>

RECURSIVE sendFragments(_, _, _, _, _, _)
sendFragments(p, c, naluHeader, data, i, isLastNal) ==
    IF i > Len(data) THEN p
    ELSE LET isFirstPacket == i = 1
             isLastPacket  == i = Len(data)
             markerBit     == isLastNal /\ isLastPacket
         IN sendFragments(
                Emit(p, markerBit, "fragment",
                     makeFragmentationUnitHeader(c, isFirstPacket, isLastPacket, naluHeader)
                     \o data[i]),
                c, naluHeader, data, i + 1, isLastNal)

\* _sendFragmented(nalu, isLastNal)
sendFragmented(p, c, nalu, isLastNal) ==
    LET parts == splitHeader(c, nalu)
    IN sendFragments(p, c, parts.header, partitionDataMTUSizedChunks(parts.data),
                     1, isLastNal)

\* the flush of sendFrame: _sendNonFragmented(naluAggregate, isLastNal) and
\* an empty aggregate again
flushAggregate(w, c, isLastNal) ==
    [p |-> sendNonFragmented(w.p, c, w.naluAggregate, isLastNal),
     naluAggregate |-> << >>, naluAggregateSize |-> 0]

\* a loop that sets the marker on the flush before a fragmented NAL
RECURSIVE sendNalus_MarkerOnFlush(_, _, _, _)
sendNalus_MarkerOnFlush(w, c, nalus, index) ==
    IF index > Len(nalus) THEN w
    ELSE LET nalu == nalus[index]
             isLastNal == index = Len(nalus)
         IN IF Len(nalu) <= Mtu
            THEN LET w1 == IF w.naluAggregateSize + Len(nalu) >= Mtu
                           THEN flushAggregate(w, c, FALSE) ELSE w
                 IN sendNalus_MarkerOnFlush(
                        [w1 EXCEPT !.naluAggregate = Append(@, nalu),
                                   !.naluAggregateSize = @ + Len(nalu)],
                        c, nalus, index + 1)
            ELSE LET w1 == IF w.naluAggregateSize # 0
                           THEN flushAggregate(w, c, isLastNal) ELSE w
                 IN sendNalus_MarkerOnFlush(
                        [w1 EXCEPT !.p = sendFragmented(@, c, nalu, isLastNal)],
                        c, nalus, index + 1)

\* a loop that fragments the large NAL before it flushes the aggregate
RECURSIVE sendNalus_FlushAfterFragments(_, _, _, _)
sendNalus_FlushAfterFragments(w, c, nalus, index) ==
    IF index > Len(nalus) THEN w
    ELSE LET nalu == nalus[index]
             isLastNal == index = Len(nalus)
         IN IF Len(nalu) <= Mtu
            THEN LET w1 == IF w.naluAggregateSize + Len(nalu) >= Mtu
                           THEN flushAggregate(w, c, FALSE) ELSE w
                 IN sendNalus_FlushAfterFragments(
                        [w1 EXCEPT !.naluAggregate = Append(@, nalu),
                                   !.naluAggregateSize = @ + Len(nalu)],
                        c, nalus, index + 1)
            ELSE LET w1 == [w EXCEPT !.p = sendFragmented(@, c, nalu, FALSE)]
                     w2 == IF w1.naluAggregateSize # 0
                           THEN flushAggregate(w1, c, isLastNal) ELSE w1
                 IN sendNalus_FlushAfterFragments(w2, c, nalus, index + 1)

\* the loop of sendFrame over the NAL units (index counts from 1)
RECURSIVE sendNalus(_, _, _, _)
sendNalus(w, c, nalus, index) ==
    IF index > Len(nalus) THEN w
    ELSE LET nalu == nalus[index]
             isLastNal == index = Len(nalus)
         IN IF Len(nalu) <= Mtu
            THEN LET w1 == IF w.naluAggregateSize + Len(nalu) >= Mtu
                           THEN flushAggregate(w, c, FALSE) ELSE w
                 IN sendNalus([w1 EXCEPT !.naluAggregate = Append(@, nalu),
                                         !.naluAggregateSize = @ + Len(nalu)],
                              c, nalus, index + 1)
            ELSE LET w1 == IF w.naluAggregateSize # 0
                           THEN flushAggregate(w, c, FALSE) ELSE w
                 IN sendNalus([w1 EXCEPT !.p = sendFragmented(@, c, nalu, isLastNal)],
                              c, nalus, index + 1)

\* VideoPacketizerAnnexB.sendFrame up to onFrameSent: the loop and the flush
\* of what is left in the aggregate
sendFrameAnnexB(p, c, nalus) ==
    LET w == sendNalus([p |-> p, naluAggregate |-> << >>, naluAggregateSize |-> 0],
                       c, nalus, 1)
    IN IF w.naluAggregateSize # 0 THEN flushAggregate(w, c, TRUE).p ELSE w.p

AudioClockRate == 48000
VideoClockRate == 90000

\* BaseMediaPacketizer.onFrameSent as the class built on a werift track has
\* it (the class VideoPacketizerAnnexB extends): its first statement reads
\* this._mediaUdp.mediaConnection, and the class has no _mediaUdp field, so
\* the read of .mediaConnection on undefined raises a TypeError
onFrameSentOfTrackBase == "throws"

\* BaseMediaPacketizer.onFrameSent as the class built from PacketizerParams
\* has it (the class AudioPacketizer extends): the body is commented out
onFrameSentOfParamsBase == "returns"

\* a sendFrame call's result written back to the packetizer
FirstCall == track.frames = 0

FrameSent(p, nalus, frametime, threw) ==
    /\ sequence' = p.sequence
    /\ timestamp' = p.timestamp
    /\ sent' = [nalus |-> nalus, frametime |-> frametime,
                packets |-> p.packets, threw |-> threw]
    /\ track' = [track EXCEPT
                   !.lastSeq = IF sent.packets = << >> THEN @
                               ELSE sent.packets[Len(sent.packets)].sequenceNumber,
                   !.frames = @ + 1,
                   !.ms = @ + sent.frametime]
    /\ UNCHANGED <<codec, connVars, daveVars, ackVars, processingVars, ev>>

\* AudioPacketizer.onFrameSent(bytesSent, frametime)
audioOnFrameSent(p, frametime) ==
    IF onFrameSentOfParamsBase = "throws" THEN p
    ELSE [p EXCEPT !.timestamp =
              incrementTimestamp(@, frametime * (AudioClockRate \div 1000))]

\* VideoPacketizerAnnexB.onFrameSent(packetsSent, bytesSent, frametime):
\* incrementTimestamp runs after the await of super.onFrameSent, that is
\* when that call returned
videoOnFrameSent(p, frametime) ==
    IF onFrameSentOfTrackBase = "throws" THEN p
    ELSE [p EXCEPT !.timestamp =
              incrementTimestamp(@, (VideoClockRate \div 1000) * frametime)]

\* AudioPacketizer.sendFrame(frame, frametime): one packet with the marker
\* set, then onFrameSent, whose continuation runs before the caller's
SendAudioFrame(frametime) ==
    /\ codec = "opus"
    /\ track.frames < MaxFrames
    /\ LET frame == Nalu(1, 2)
           p == Emit(Packetizer, TRUE, "opus", frame)
       IN FrameSent(audioOnFrameSent(p, frametime), << frame >>, frametime,
                    onFrameSentOfParamsBase = "throws")

\* VideoPacketizerH264 / VideoPacketizerH265 .sendFrame(frame, frametime) for
\* a frame that splitNalu cuts into NALs of the given sizes
SendVideoFrame(sizes, frametime) ==
    /\ codec \in VideoCodecs
    /\ track.frames < MaxFrames
    /\ LET nalus == [i \in 1..Len(sizes) |-> Nalu(i, sizes[i])]
           p == sendFrameAnnexB(Packetizer, codec, nalus)
       IN FrameSent(videoOnFrameSent(p, frametime), nalus, frametime,
                    onFrameSentOfTrackBase = "throws")

(* ------------------- Ready and protocol acknowledgement ---------------- *)
\* a Ready handler that invokes this.ready without waiting for the
\* acknowledgement
onReady_CallbackAtOnce(rc) ==
    [promise |-> "resolved", calls |-> rc.calls + 1, acked |-> FALSE]

\* READY: setProtocols() returns a promise that a once-listener for
\* select_protocol_ack resolves; this.ready is chained on it with then()
onReady(rc) == [promise |-> "pending", calls |-> rc.calls, acked |-> FALSE]

\* the Ready messages not received yet
UnusedReady == {r \in ReadyIds : readyCalls[r].promise = "none"}

\* READY on socket c: handleReady(d), setProtocols() (createOffer() is
\* started, the listener registered), setVideoAttributes(false)
Ready(c) ==
    /\ Receiving(c)
    /\ UnusedReady # {}
    /\ LET r == CHOOSE x \in UnusedReady : \A y \in UnusedReady : x <= y
       IN /\ readyCalls' = [readyCalls EXCEPT ![r] = onReady(@)]
          /\ ev' = Event("READY", c, r, NoArg, "",
                         sendOpcode(<< >>, ws, sockets, "VIDEO", NoArg), FALSE)
    /\ offersPending' = offersPending + 1
    /\ UNCHANGED <<connVars, daveVars, acksInFlight, packetizerVars, processingVars>>

\* createOffer() settles: when it resolves SELECT_PROTOCOL is sent, when it
\* rejects nothing is
OfferSettled(resolved) ==
    /\ offersPending > 0
    /\ offersPending' = offersPending - 1
    /\ ev' = Event("createOffer", NoChannel, NoArg, NoArg,
                   IF resolved THEN "resolved" ELSE "rejected",
                   IF resolved
                   THEN sendOpcode(<< >>, ws, sockets, "SELECT_PROTOCOL", NoArg)
                   ELSE << >>, FALSE)
    /\ UNCHANGED <<connVars, daveVars, readyCalls, acksInFlight, packetizerVars, processingVars>>

\* SELECT_PROTOCOL_ACK on socket c: handleProtocolAck(d) up to its await.
\* Without an sdp the async function rejects at once; with one it suspends
\* in setRemoteDescription.
ProtocolAck(c, hasSdp, version) ==
    /\ Receiving(c)
    /\ BagCardinality(acksInFlight) < MaxReady
    /\ acksInFlight' = IF hasSdp THEN acksInFlight (+) SetToBag({version})
                       ELSE acksInFlight
    /\ ev' = Event("SELECT_PROTOCOL_ACK", c, NoArg, version,
                   IF hasSdp THEN "awaiting" ELSE "nosdp", << >>, FALSE)
    /\ UNCHANGED <<connVars, daveVars, readyCalls, offersPending, packetizerVars, processingVars>>

\* emit("select_protocol_ack") as seen by one Ready's promise: a pending one
\* is resolved by its once-listener and its then() callback invokes
\* this.ready before any other event is handled
emitSelectProtocolAck(rc) ==
    IF rc.promise = "pending"
    THEN [rc EXCEPT !.promise = "resolved", !.calls = @ + 1]
    ELSE rc

\* the callback joinVoice and createStream hand to the connection they make,
\* `(udp) => { () => resolve(udp) }`: its body builds an arrow function and
\* drops it, so resolve is not called and the promise is left as it was
readyCallback(s) == s

\* this.ready(conn) for every Ready whose promise the emit resolves: the
\* connection's callback is the one the Streamer passed to its constructor
invokeReady(s, calls) ==
    IF \E r \in ReadyIds : calls[r].promise = "pending" THEN readyCallback(s) ELSE s

\* handleProtocolAck(d) after its await: when setRemoteDescription resolved,
\* capture the version, initDave(), emit select_protocol_ack; when it
\* rejected the function ends there
ProtocolAckSettled(version, resolved) ==
    /\ BagIn(version, acksInFlight)
    /\ acksInFlight' = acksInFlight (-) SetToBag({version})
    /\ IF resolved
       THEN LET d == initDave([Dave EXCEPT !.ver = version])
            IN /\ daveProtocolVersion' = d.ver
               /\ daveSession' = d.sess
               /\ davePendingTransitions' = d.pend
               /\ daveDowngraded' = d.down
               /\ readyCalls' =
                     [r \in ReadyIds |->
                        IF readyCalls[r].promise = "none" THEN readyCalls[r]
                        ELSE [emitSelectProtocolAck(readyCalls[r]) EXCEPT !.acked = TRUE]]
               /\ streamer' = invokeReady(streamer, readyCalls)
               /\ ev' = Event("handleProtocolAck", NoChannel, NoArg, version,
                              "resolved", d.out, FALSE)
       ELSE /\ UNCHANGED <<daveVars, readyCalls, streamer>>
            /\ ev' = Event("handleProtocolAck", NoChannel, NoArg, version,
                           "rejected", << >>, FALSE)
    /\ UNCHANGED <<connVars, offersPending, packetizerVars, bitVars, spsVars, rtcVars, play>>

(* ------------------- Streamer: joinVoice and createStream -------------- *)
\* the promise executor of joinVoice: rejected when the client is not logged
\* in, otherwise a VoiceConnection is made and the promise stays pending
joinVoice(loggedIn) ==
    [method |-> "joinVoice", promise |-> IF loggedIn THEN "pending" ELSE "rejected"]

\* the promise executor of createStream: rejected when the client is not
\* logged in or no voice connection exists, and by the throw inside the
\* executor when the voice connection has no session id; otherwise a
\* StreamConnection is made and the promise stays pending
createStream(loggedIn, hasVoiceConnection, hasSession) ==
    [method |-> "createStream",
     promise |-> IF loggedIn /\ hasVoiceConnection /\ hasSession
                 THEN "pending" ELSE "rejected"]

\* streamer.joinVoice(guild_id, channel_id)
JoinVoice(loggedIn) ==
    /\ streamer.method = "none"
    /\ streamer' = joinVoice(loggedIn)
    /\ ev' = Event("joinVoice", NoChannel, NoArg, NoArg, streamer'.promise, << >>, FALSE)
    /\ UNCHANGED <<connVars, daveVars, ackVars, packetizerVars, bitVars, spsVars,
                   rtcVars, play>>

\* streamer.createStream()
CreateStream(loggedIn, hasVoiceConnection, hasSession) ==
    /\ streamer.method = "none"
    /\ streamer' = createStream(loggedIn, hasVoiceConnection, hasSession)
    /\ ev' = Event("createStream", NoChannel, NoArg, NoArg, streamer'.promise, << >>, FALSE)
    /\ UNCHANGED <<connVars, daveVars, ackVars, packetizerVars, bitVars, spsVars,
                   rtcVars, play>>

\* the connection the Streamer made exists: its gateway listeners are
\* registered and its socket can deliver messages
ConnectionMade == streamer.promise # "none" /\ streamer.promise # "rejected"

(* ------------------- playStream ---------------------------------------- *)
\* mergeOptions: readrateInitialBurst is kept when it is a finite number
\* above zero, and is undefined otherwise
mergedBurst(opt) == IF opt # NoArg /\ opt # 0 /\ opt > 0 THEN opt ELSE NoArg

\* a stopBurst that lets the event at the threshold itself pass
stopBurst_AboveThreshold(p, pts) ==
    IF pts <= p.readrateInitialBurst * MsPerSecond THEN p
    ELSE [p EXCEPT !.vStream.sync = TRUE, !.aStream.sync = TRUE,
                   !.vStream.noSleep = FALSE, !.aStream.noSleep = FALSE,
                   !.stopBurst = FALSE]

\* stopBurst(pts), the listener of the video stream's pts event
stopBurst(p, pts) ==
    IF pts < p.readrateInitialBurst * MsPerSecond THEN p
    ELSE [p EXCEPT !.vStream.sync = TRUE, !.aStream.sync = TRUE,
                   !.vStream.noSleep = FALSE, !.aStream.noSleep = FALSE,
                   !.stopBurst = FALSE]

\* if (typeof burstTime === "number") { ... vStream.on("pts", stopBurst) }
startBurst(p) ==
    IF p.readrateInitialBurst = NoArg THEN p
    ELSE [p EXCEPT !.vStream.sync = FALSE, !.aStream.sync = FALSE,
                   !.vStream.noSleep = TRUE, !.aStream.noSleep = TRUE,
                   !.stopBurst = TRUE]

\* playStream once it holds the media connection, up to its return: the
\* streams are made and linked, the burst set up when there is audio, the
\* preview decoder's initialisation started for a go-live stream with
\* streamPreview, the first cleanup function pushed by the promise executor
\* and the abort and finish listeners registered
startStreams(p) ==
    [(IF p.audio THEN startBurst(p) ELSE p)
       EXCEPT !.phase = "playing",
              !.decoder = IF p.streamPreview /\ p.type = "go-live"
                          THEN "initializing" ELSE "none",
              !.cleanupFuncs = << "stopStream" >>,
              !.promise = "pending"]

\* playStream(input, streamer, options, cancelSignal) up to its first await
\* after demux: a go-live stream waits for streamer.createStream()
playStream(type, createStreamResult, hasAudio, burst, preview) ==
    LET p == [NoPlay EXCEPT !.type = type, !.createStream = createStreamResult,
                            !.audio = hasAudio,
                            !.readrateInitialBurst = mergedBurst(burst),
                            !.streamPreview = preview]
    IN IF type = "go-live" THEN [p EXCEPT !.phase = "creating"] ELSE startStreams(p)

\* cleanup(): once, every function in cleanupFuncs at that moment
cleanup(p) ==
    IF p.cleanedUp THEN p
    ELSE [p EXCEPT !.cleanedUp = TRUE, !.ran = @ \o p.cleanupFuncs]

\* resolve / reject of the promise playStream waits on
settle(p, how) == IF p.promise = "pending" THEN [p EXCEPT !.promise = how] ELSE p

\* the abort listener of playStream
onAbort(p) == settle(cleanup(p), "rejected")

\* the finish listener of the video stream
onFinish(p) == IF p.aborted THEN p ELSE settle(cleanup(p), "resolved")

\* the preview's async function after `await createDecoder(...)`
decoderCreated(p, ok) ==
    IF ok
    THEN [p EXCEPT !.decoder = "ready",
                   !.cleanupFuncs = @ \o << "decoder.free", "off(updatePreview)" >>]
    ELSE [p EXCEPT !.decoder = "failed"]

\* vStream.emit("pts", pts): the listeners registered on the video stream
emitPts(p, pts) == IF p.stopBurst THEN stopBurst(p, pts) ELSE p

\* a synchronising stream that waits whatever the distance to its partner is
\* below two ticks
mustWait_TwoTicks(self, partner) ==
    self.sync /\ ~partner.ended /\ self.pts + TickMs > partner.pts + 2 * TickMs

\* the synchronisation rule of a media stream with a syncStream: a stream
\* about to emit a unit whose pts would be more than one tick ahead of its
\* partner's last emitted pts waits; a partner that has ended holds nobody
mustWait(self, partner) ==
    self.sync /\ ~partner.ended /\ self.pts + TickMs > partner.pts + TickMs

PlayUnchanged ==
    UNCHANGED <<connVars, daveVars, ackVars, packetizerVars, bitVars, spsVars,
                rtcVars, streamer, ev>>

\* playStream is called
PlayStream(type, createStreamResult, hasAudio, burst, preview) ==
    /\ play.phase = "none"
    /\ play' = playStream(type, createStreamResult, hasAudio, burst, preview)
    /\ PlayUnchanged

\* the promise of streamer.createStream() resolves and playStream runs on to
\* its return
StreamCreated ==
    /\ play.phase = "creating" /\ play.createStream = "resolves"
    /\ play' = startStreams(play)
    /\ PlayUnchanged

\* cancelSignal aborts: the listener runs if playStream has registered it
Abort ==
    /\ play.phase # "none" /\ ~play.aborted
    /\ play' = IF play.phase = "playing"
               THEN onAbort([play EXCEPT !.aborted = TRUE])
               ELSE [play EXCEPT !.aborted = TRUE]
    /\ PlayUnchanged

\* createDecoder(...) settles
DecoderCreated(ok) ==
    /\ play.decoder = "initializing"
    /\ play' = decoderCreated(play, ok)
    /\ PlayUnchanged

\* the video stream sends its next frame and emits its pts
EmitVideo ==
    /\ play.phase = "playing" /\ ~play.vStream.ended
    /\ play.vStream.pts < MaxUnits * TickMs
    /\ play.audio => ~mustWait(play.vStream, play.aStream)
    /\ play' = emitPts([play EXCEPT !.vStream.pts = @ + TickMs],
                       play.vStream.pts + TickMs)
    /\ PlayUnchanged

\* the audio stream sends its next frame
EmitAudio ==
    /\ play.phase = "playing" /\ play.audio /\ ~play.aStream.ended
    /\ play.aStream.pts < MaxUnits * TickMs
    /\ ~mustWait(play.aStream, play.vStream)
    /\ play' = [play EXCEPT !.aStream.pts = @ + TickMs]
    /\ PlayUnchanged

\* the video input ends: the video stream finishes
VideoFinish ==
    /\ play.phase = "playing" /\ ~play.vStream.ended
    /\ play' = onFinish([play EXCEPT !.vStream.ended = TRUE])
    /\ PlayUnchanged

\* the audio input ends
AudioFinish ==
    /\ play.phase = "playing" /\ play.audio /\ ~play.aStream.ended
    /\ play' = [play EXCEPT !.aStream.ended = TRUE]
    /\ PlayUnchanged

(* ------------------- Annex B bitstream reader and writer --------------- *)
\* 2^n, for 0 <= n <= 30
RECURSIVE Pow2(_)
Pow2(n) == IF n = 0 THEN 1 ELSE 2 * Pow2(n - 1)

\* x >> n for 0 <= x < 2^31 and 0 <= n < 32
ShiftRight(x, n) == IF n > 30 THEN 0 ELSE x \div Pow2(n)

\* x & ((1 << n) - 1) for 0 <= x < 2^31 and 0 <= n <= 8
LowBits(x, n) == x % Pow2(n)

\* a | b on bytes
RECURSIVE BitOr(_, _, _)
BitOr(a, b, n) ==
    IF n = 0 THEN 0
    ELSE 2 * BitOr(a \div 2, b \div 2, n - 1)
         + (IF a % 2 = 1 \/ b % 2 = 1 THEN 1 ELSE 0)

\* (result << n) | newBits in 32-bit signed arithmetic, for 0 <= result <
\* 2^(32-n) and 0 <= newBits < 2^n: negative when bit 31 becomes set
ShiftLeftOr(result, n, newBits) ==
    IF result < Pow2(31 - n)
    THEN result * Pow2(n) + newBits
    ELSE (((result - Pow2(31 - n)) * Pow2(n) + newBits) - Pow2(30)) - Pow2(30)

\* this._buffer[i]: undefined beyond the end, which | and >> take as 0
ByteAt(buffer, i) == IF i < Len(buffer) THEN buffer[i + 1] ELSE 0

\* the emulation-prevention test of readBits
AtEmulationPrevention(r) ==
    /\ r.bitOffset = 0 /\ r.byteOffset >= 2
    /\ ByteAt(r.buffer, r.byteOffset - 2) = 0
    /\ ByteAt(r.buffer, r.byteOffset - 1) = 0
    /\ r.byteOffset < Len(r.buffer)
    /\ r.buffer[r.byteOffset + 1] = 3

\* the loop of readBits(count): [r: the reader afterwards, result, threw]
RECURSIVE readBitsLoop(_, _, _)
readBitsLoop(r, count, result) ==
    IF count <= 0 THEN [r |-> r, result |-> result, threw |-> FALSE]
    ELSE IF r.byteOffset >= Len(r.buffer)
    THEN [r |-> r, result |-> 0, threw |-> TRUE]
    ELSE LET r1 == IF AtEmulationPrevention(r)
                   THEN [r EXCEPT !.byteOffset = @ + 1] ELSE r
         IN IF r1.bitOffset = 0 /\ count >= 8
            THEN readBitsLoop([r1 EXCEPT !.byteOffset = @ + 1], count - 8,
                              ShiftLeftOr(result, 8, ByteAt(r1.buffer, r1.byteOffset)))
            ELSE LET numBitsToRead == Min(count, 8 - r1.bitOffset)
                     newBits == LowBits(ShiftRight(ByteAt(r1.buffer, r1.byteOffset),
                                                   8 - r1.bitOffset - numBitsToRead),
                                        numBitsToRead)
                     bitOffset == r1.bitOffset + numBitsToRead
                 IN readBitsLoop(
                        IF bitOffset = 8
                        THEN [r1 EXCEPT !.bitOffset = 0, !.byteOffset = @ + 1]
                        ELSE [r1 EXCEPT !.bitOffset = bitOffset],
                        count - numBitsToRead,
                        ShiftLeftOr(result, numBitsToRead, newBits))

\* AnnexBBitstreamReader.readBits(count), count <= 32
readBits(r, count) == readBitsLoop(r, count, 0)

\* the statements F, run on what the statements before them left in st
Then(st, F(_)) == CHOOSE s \in {F(s0) : s0 \in {st}} : TRUE

\* the loop of readUnsignedExpGolomb that counts the zero bits before the
\* first one bit
RECURSIVE readLeadingZeros(_, _)
readLeadingZeros(r, leading0) ==
    Then(readBits(r, 1), LAMBDA b :
        IF b.threw THEN [r |-> b.r, result |-> leading0, threw |-> TRUE]
        ELSE IF b.result = 0 THEN readLeadingZeros(b.r, leading0 + 1)
        ELSE [r |-> b.r, result |-> leading0, threw |-> FALSE])

\* AnnexBBitstreamReader.readUnsignedExpGolomb(), for codes of at most 30
\* leading zero bits
readUnsignedExpGolomb(r) ==
    Then(readLeadingZeros(r, 0), LAMBDA z :
        IF z.threw THEN [r |-> z.r, result |-> 0, threw |-> TRUE]
        ELSE Then(readBits(z.r, z.result), LAMBDA b :
                 IF b.threw THEN [r |-> b.r, result |-> 0, threw |-> TRUE]
                 ELSE [r |-> b.r, result |-> Pow2(z.result) + b.result - 1,
                       threw |-> FALSE]))

\* AnnexBBitstreamReader.readSignedExpGolomb()
readSignedExpGolomb(r) ==
    Then(readUnsignedExpGolomb(r), LAMBDA u :
        IF u.threw THEN u
        ELSE IF u.result % 2 = 0
        THEN [u EXCEPT !.result = 0 - (u.result \div 2)]
        ELSE [u EXCEPT !.result = (u.result + 1) \div 2])

\* a flush that escapes a pending byte below 3 only
flush_EscapingBelowThree(w) ==
    LET n == Len(w.arr)
    IN [arr |-> IF w.pendingByte < 3 /\ n >= 2 /\ w.arr[n] = 0 /\ w.arr[n - 1] = 0
                THEN w.arr \o << 3, w.pendingByte >>
                ELSE Append(w.arr, w.pendingByte),
        pendingByte |-> 0, bitOffset |-> 0]

\* AnnexBBitstreamWriter.flush()
flush(w) ==
    LET n == Len(w.arr)
    IN [arr |-> IF w.pendingByte <= 3 /\ n >= 2 /\ w.arr[n] = 0 /\ w.arr[n - 1] = 0
                THEN w.arr \o << 3, w.pendingByte >>
                ELSE Append(w.arr, w.pendingByte),
        pendingByte |-> 0, bitOffset |-> 0]

\* AnnexBBitstreamWriter.writeBits(bits, count), for 0 <= bits < 2^31
RECURSIVE writeBits(_, _, _)
writeBits(w, bits, count) ==
    IF count <= 0 THEN w
    ELSE IF w.bitOffset = 0
    THEN IF count >= 8
         THEN writeBits(flush([w EXCEPT !.pendingByte =
                                   LowBits(ShiftRight(bits, count - 8), 8)]),
                        bits, count - 8)
         ELSE [w EXCEPT !.pendingByte =
                            BitOr(@, LowBits(bits, count) * Pow2(8 - count), 8),
                        !.bitOffset = count]
    ELSE LET numBitsToWrite == Min(8 - w.bitOffset, count)
             bitsToWrite == LowBits(ShiftRight(bits, count - numBitsToWrite),
                                    numBitsToWrite)
             w1 == [w EXCEPT !.pendingByte =
                                 BitOr(@, bitsToWrite
                                          * Pow2(8 - w.bitOffset - numBitsToWrite), 8),
                             !.bitOffset = @ + numBitsToWrite]
         IN writeBits(IF w1.bitOffset = 8 THEN flush(w1) ELSE w1,
                      bits, count - numBitsToWrite)

\* 32 - Math.clz32(num): the number of bits of num > 0
RECURSIVE BitLength(_)
BitLength(num) == IF num = 0 THEN 0 ELSE 1 + BitLength(num \div 2)

\* AnnexBBitstreamWriter.writeUnsignedExpGolomb(num): [w, threw]
writeUnsignedExpGolomb(w, num) ==
    IF num < 0 THEN [w |-> w, threw |-> TRUE]
    ELSE LET bitCount == BitLength(num + 1)
         IN [w |-> writeBits(writeBits(w, 0, bitCount - 1), num + 1, bitCount),
             threw |-> FALSE]

\* AnnexBBitstreamWriter.writeSignedExpGolomb(num)
writeSignedExpGolomb(w, num) ==
    IF num < 0 THEN writeUnsignedExpGolomb(w, (0 - 2) * num)
    ELSE writeUnsignedExpGolomb(w, 2 * num - 1)

\* one call on the writer or on the reader, as the log keeps it
Call(kind, count, value, threw) ==
    [kind |-> kind, count |-> count, value |-> value, threw |-> threw]

\* a call on the writer: it and the writer's new state go to the log; a
\* call that threw ends the use of the writer
Written(kind, count, value, res) ==
    /\ writer' = res.w
    /\ bitLog' = [bitLog EXCEPT
                    !.written = Append(@, Call(kind, count, value, res.threw)),
                    !.phase = IF res.threw THEN "failed" ELSE @]
    /\ UNCHANGED <<reader, spsVars, rtcVars, appVars, connVars, daveVars, ackVars, packetizerVars, ev>>

Writing == bitLog.phase = "writing" /\ Len(bitLog.written) < MaxWrites

\* writer.writeBits(bits, count)
WriteBits(bits, count) ==
    /\ Writing
    /\ Written("u", count, bits, [w |-> writeBits(writer, bits, count), threw |-> FALSE])

\* writer.writeUnsignedExpGolomb(num)
WriteUnsignedExpGolomb(num) ==
    /\ Writing
    /\ Written("ue", 0, num, writeUnsignedExpGolomb(writer, num))

\* writer.writeSignedExpGolomb(num)
WriteSignedExpGolomb(num) ==
    /\ Writing
    /\ Written("se", 0, num, writeSignedExpGolomb(writer, num))

\* writer.flush(); new AnnexBBitstreamReader(writer.toBuffer())
FlushToReader ==
    /\ bitLog.phase = "writing"
    /\ bitLog.written # << >>
    /\ writer' = flush(writer)
    /\ reader' = NewReader(flush(writer).arr)
    /\ bitLog' = [bitLog EXCEPT !.phase = "reading"]
    /\ UNCHANGED <<spsVars, rtcVars, appVars, connVars, daveVars, ackVars, packetizerVars, ev>>

\* a call on the reader
Read(kind, count, res) ==
    /\ reader' = res.r
    /\ bitLog' = [bitLog EXCEPT
                    !.read = Append(@, Call(kind, count, res.result, res.threw))]
    /\ UNCHANGED <<writer, spsVars, rtcVars, appVars, connVars, daveVars, ackVars, packetizerVars, ev>>

\* the bits the calls of a log account for, when every call is a
\* writeBits or a readBits
RECURSIVE BitsOf(_)
BitsOf(calls) ==
    IF calls = << >> THEN 0 ELSE Head(calls).count + BitsOf(Tail(calls))

\* reader.readBits(count)
ReadBits(count) ==
    /\ bitLog.phase = "reading"
    /\ Read("u", count, readBits(reader, count))

\* the reader is asked for the fields in the order they were written:
\* readBits(count), readUnsignedExpGolomb() or readSignedExpGolomb()
ReadField ==
    /\ bitLog.phase = "reading"
    /\ Len(bitLog.read) < Len(bitLog.written)
    /\ LET f == bitLog.written[Len(bitLog.read) + 1]
       IN Read(f.kind, f.count,
               IF f.kind = "ue" THEN readUnsignedExpGolomb(reader)
               ELSE IF f.kind = "se" THEN readSignedExpGolomb(reader)
               ELSE readBits(reader, f.count))

(* ------------------------------ rewriteSPSVUI -------------------------- *)
\* rewriteSPSVUI while it runs: its reader, its writer, whether a call
\* threw (every later step is then skipped), and the syntax elements read
\* so far, in order, as [name, value]. decoder is FALSE while rewriteSPSVUI
\* runs.
Rewriting(buffer) ==
    [r |-> NewReader(Tail(buffer)), w |-> NewWriter, threw |-> FALSE, f |-> << >>,
     decoder |-> FALSE]

\* A decoder of H.264 reading the SPS in buffer: it reads the syntax that
\* rewriteSPSVUI reads, writes nothing, and reads a scaling list as
\* scaling_list() of the standard has it.
Decoding(buffer) == [Rewriting(buffer) EXCEPT !.decoder = TRUE]

\* the value read last
LastValue(st) == st.f[Len(st.f)].value

\* the first value read for a syntax element, NoArg when it was not read
Field(f, name) ==
    IF \E i \in 1..Len(f) : f[i].name = name
    THEN f[CHOOSE i \in 1..Len(f) :
               f[i].name = name /\ \A j \in 1..(i - 1) : f[j].name # name].value
    ELSE NoArg

\* what a call on the reader leaves in st
HasRead(st, name, res) ==
    IF res.threw THEN [st EXCEPT !.r = res.r, !.threw = TRUE]
    ELSE [st EXCEPT !.r = res.r,
                    !.f = Append(@, [name |-> name, value |-> res.result])]

\* const name = readBit(n) / readU(n)
readU(st, n, name) == IF st.threw THEN st ELSE HasRead(st, name, readBits(st.r, n))

\* const name = readUE()
readUE(st, name) == IF st.threw THEN st ELSE HasRead(st, name, readUnsignedExpGolomb(st.r))

\* const name = readSE()
readSE(st, name) == IF st.threw THEN st ELSE HasRead(st, name, readSignedExpGolomb(st.r))

\* writeBit(v, n): writer.writeBits
writeBit(st, v, n) ==
    IF st.threw \/ st.decoder THEN st ELSE [st EXCEPT !.w = writeBits(@, v, n)]

\* writeU(v, n): writer.writeUnsigned, which rejects a negative number
writeU(st, v, n) ==
    IF st.threw \/ st.decoder THEN st
    ELSE IF v < 0 THEN [st EXCEPT !.threw = TRUE]
    ELSE [st EXCEPT !.w = writeBits(@, v, n)]

\* what an Exp-Golomb call on the writer leaves in st
HasWritten(st, res) == [st EXCEPT !.w = res.w, !.threw = res.threw]

\* writeUE(v)
writeUE(st, v) ==
    IF st.threw \/ st.decoder THEN st
    ELSE HasWritten(st, writeUnsignedExpGolomb(st.w, v))

\* writeSE(v)
writeSE(st, v) ==
    IF st.threw \/ st.decoder THEN st
    ELSE HasWritten(st, writeSignedExpGolomb(st.w, v))

\* if (flag) { F }, for the flag read first under that name
IfSet(st, name, F(_)) ==
    IF st.threw \/ Field(st.f, name) \in {0, NoArg} THEN st ELSE F(st)

\* const x = readBit(n); writeBit(x, n)
copyBit(st, n, name) ==
    Then(readU(st, n, name), LAMBDA s1 : writeBit(s1, LastValue(s1), n))

\* const x = readU(n); writeU(x, n)
copyU(st, n, name) ==
    Then(readU(st, n, name), LAMBDA s1 : writeU(s1, LastValue(s1), n))

\* const x = readUE(); writeUE(x)
copyUE(st, name) == Then(readUE(st, name), LAMBDA s1 : writeUE(s1, LastValue(s1)))

\* const x = readSE(); writeSE(x)
copySE(st, name) == Then(readSE(st, name), LAMBDA s1 : writeSE(s1, LastValue(s1)))

\* the profiles with the additional fields
highProfiles == {100, 110, 122, 244, 44, 83, 86, 118, 128, 138, 144}

\* scaling_list(size): the loop over j, which reads a delta for every j
RECURSIVE scalingList(_, _, _)
scalingList(st, j, size) ==
    IF st.threw \/ j >= size THEN st
    ELSE scalingList(copySE(st, "delta_scale"), j + 1, size)

\* scaling_list(size) as a decoder reads it: delta_scale is read while
\* nextScale is not 0, and nextScale is (lastScale + delta_scale + 256) % 256
RECURSIVE decodedScalingList(_, _, _, _, _)
decodedScalingList(st, j, size, lastScale, nextScale) ==
    IF st.threw \/ j >= size \/ nextScale = 0 THEN st
    ELSE Then(readSE(st, "delta_scale"), LAMBDA s1 :
             IF s1.threw THEN s1
             ELSE IF (lastScale + LastValue(s1) + 256) % 256 = 0
             THEN decodedScalingList(s1, j + 1, size, lastScale, 0)
             ELSE decodedScalingList(s1, j + 1, size,
                                     (lastScale + LastValue(s1) + 256) % 256,
                                     (lastScale + LastValue(s1) + 256) % 256))

\* the loop over the scaling lists
RECURSIVE scalingLists(_, _, _)
scalingLists(st, i, scalingCount) ==
    IF st.threw \/ i >= scalingCount THEN st
    ELSE scalingLists(
             Then(copyBit(st, 1, "seq_scaling_list_present_flag"), LAMBDA s1 :
                 IF s1.threw \/ LastValue(s1) = 0 THEN s1
                 ELSE IF s1.decoder
                 THEN decodedScalingList(s1, 0, IF i < 6 THEN 16 ELSE 64, 8, 8)
                 ELSE scalingList(s1, 0, IF i < 6 THEN 16 ELSE 64)),
             i + 1, scalingCount)

\* the fields of the high profiles
highProfileFields(st) ==
    Then(Then(copyUE(st, "chroma_format_idc"),
              LAMBDA s1 :
                  copyBit(copyBit(copyUE(copyUE(
                      IF Field(s1.f, "chroma_format_idc") = 3
                      THEN copyBit(s1, 1, "separate_colour_plane_flag") ELSE s1,
                      "bit_depth_luma_minus8"), "bit_depth_chroma_minus8"),
                      1, "qpprime_y_zero_transform_bypass_flag"),
                      1, "seq_scaling_matrix_present_flag")),
         LAMBDA s6 :
             IfSet(s6, "seq_scaling_matrix_present_flag",
                   LAMBDA s : scalingLists(s, 0, IF Field(s.f, "chroma_format_idc") # 3
                                                 THEN 8 ELSE 12)))

\* the loop over offset_for_ref_frame
RECURSIVE refFrameOffsets(_, _, _)
refFrameOffsets(st, i, n) ==
    IF st.threw \/ i >= n THEN st
    ELSE refFrameOffsets(copySE(st, "offset_for_ref_frame"), i + 1, n)

\* pic_order_cnt_type and what follows it
picOrderFields(st) ==
    Then(copyUE(st, "pic_order_cnt_type"), LAMBDA s1 :
        IF Field(s1.f, "pic_order_cnt_type") = 0
        THEN copyUE(s1, "log2_max_pic_order_cnt_lsb_minus4")
        ELSE IF Field(s1.f, "pic_order_cnt_type") = 1
        THEN Then(copyUE(copySE(copySE(copyBit(s1, 1, "delta_pic_order_always_zero_flag"),
                                       "offset_for_non_ref_pic"),
                                "offset_for_top_to_bottom_field"),
                         "num_ref_frames_in_pic_order_cnt_cycle"),
                  LAMBDA s5 :
                      refFrameOffsets(s5, 0,
                                      Field(s5.f, "num_ref_frames_in_pic_order_cnt_cycle")))
        ELSE s1)

\* max_num_ref_frames to the frame cropping offsets
frameFields(st) ==
    Then(Then(copyBit(copyUE(copyUE(copyBit(copyUE(st, "max_num_ref_frames"),
                                            1, "gaps_in_frame_num_value_allowed_flag"),
                                    "pic_width_in_mbs_minus1"),
                             "pic_height_in_map_units_minus1"),
                      1, "frame_mbs_only_flag"),
              LAMBDA s5 :
                  copyBit(copyBit(IF Field(s5.f, "frame_mbs_only_flag") = 0
                                  THEN copyBit(s5, 1, "mb_adaptive_frame_field_flag")
                                  ELSE s5,
                                  1, "direct_8x8_inference_flag"),
                          1, "frame_cropping_flag")),
         LAMBDA s8 :
             IfSet(s8, "frame_cropping_flag",
                   LAMBDA s : copyUE(copyUE(copyUE(copyUE(s, "frame_crop_left_offset"),
                                                   "frame_crop_right_offset"),
                                            "frame_crop_top_offset"),
                                     "frame_crop_bottom_offset")))

\* an addBitstreamRestriction that takes max_dec_frame_buffering to be 1
addBitstreamRestriction_OneFrame(st) ==
    writeUE(writeUE(writeUE(writeUE(writeUE(writeUE(writeBit(st, 1, 1), 2), 1), 16), 16),
                    0),
            1)

\* addBitstreamRestriction()
addBitstreamRestriction(st) ==
    writeUE(writeUE(writeUE(writeUE(writeUE(writeUE(writeBit(st, 1, 1), 2), 1), 16), 16),
                    0),
            Field(st.f, "max_num_ref_frames"))

\* the loop of hrd_parameters() over the CPBs
RECURSIVE hrdCpbs(_, _, _)
hrdCpbs(st, i, cpb_cnt_minus1) ==
    IF st.threw \/ i > cpb_cnt_minus1 THEN st
    ELSE hrdCpbs(copyBit(copyUE(copyUE(st, "bit_rate_value_minus1"),
                                "cpb_size_value_minus1"),
                         1, "cbr_flag"),
                 i + 1, cpb_cnt_minus1)

\* hrd_parameters()
hrdParameters(st) ==
    Then(copyUE(st, "cpb_cnt_minus1"), LAMBDA s1 :
        IF s1.threw THEN s1
        ELSE copyBit(copyBit(copyBit(copyBit(
                 hrdCpbs(copyBit(copyBit(s1, 4, "bit_rate_scale"), 4, "cpb_size_scale"),
                         0, LastValue(s1)),
                 5, "initial_cpb_removal_delay_length_minus1"),
                 5, "cpb_removal_delay_length_minus1"),
                 5, "dpb_output_delay_length_minus1"),
                 5, "time_offset_length"))

\* aspect_ratio_info_present_flag and what it announces
aspectRatioInfo(st) ==
    IfSet(copyBit(st, 1, "aspect_ratio_info_present_flag"),
          "aspect_ratio_info_present_flag",
          LAMBDA a1 :
              Then(copyU(a1, 8, "aspect_ratio_idc"), LAMBDA b1 :
                  IF Field(b1.f, "aspect_ratio_idc") = 255
                  THEN copyU(copyU(b1, 16, "sar_width"), 16, "sar_height")
                  ELSE b1))

\* overscan_info_present_flag and what it announces
overscanInfo(st) ==
    IfSet(copyBit(st, 1, "overscan_info_present_flag"), "overscan_info_present_flag",
          LAMBDA o1 : copyBit(o1, 1, "overscan_appropriate_flag"))

\* video_signal_type_present_flag, written as 0, and what it announces,
\* which is read and not written
videoSignalType(st) ==
    IfSet(writeBit(readU(st, 1, "video_signal_type_present_flag"), 0, 1),
          "video_signal_type_present_flag",
          LAMBDA v1 :
              IfSet(readU(readU(readU(v1, 3, "video_format"), 1, "video_full_range_flag"),
                          1, "colour_description_present_flag"),
                    "colour_description_present_flag",
                    LAMBDA b1 : readU(readU(readU(b1, 8, "colour_primaries"),
                                            8, "transfer_characteristics"),
                                      8, "matrix_coeffs")))

\* chroma_loc_info_present_flag and what it announces
chromaLocInfo(st) ==
    IfSet(copyBit(st, 1, "chroma_loc_info_present_flag"), "chroma_loc_info_present_flag",
          LAMBDA c1 : copyUE(copyUE(c1, "chroma_sample_loc_type_top_field"),
                             "chroma_sample_loc_type_bottom_field"))

\* timing_info_present_flag and what it announces
timingInfo(st) ==
    IfSet(copyBit(st, 1, "timing_info_present_flag"), "timing_info_present_flag",
          LAMBDA t1 : copyBit(copyU(copyU(t1, 32, "num_units_in_tick"), 32, "time_scale"),
                              1, "fixed_frame_rate_flag"))

\* nal_hrd_parameters_present_flag or vcl_hrd_parameters_present_flag, and
\* the hrd_parameters() it announces
hrdParametersPresent(st, flag) == IfSet(copyBit(st, 1, flag), flag, hrdParameters)

\* low_delay_hrd_flag, present with either hrd_parameters(), and
\* pic_struct_present_flag
picStruct(st) ==
    copyBit(IF \/ Field(st.f, "nal_hrd_parameters_present_flag") \notin {0, NoArg}
               \/ Field(st.f, "vcl_hrd_parameters_present_flag") \notin {0, NoArg}
            THEN copyBit(st, 1, "low_delay_hrd_flag") ELSE st,
            1, "pic_struct_present_flag")

\* bitstream_restriction_flag, written as 1, and the bitstream restriction
bitstreamRestriction(st) ==
    Then(writeBit(readU(st, 1, "bitstream_restriction_flag"), 1, 1), LAMBDA r1 :
        IF r1.threw THEN r1
        ELSE IF LastValue(r1) = 0 THEN addBitstreamRestriction(r1)
        ELSE writeUE(
                 readUE(writeUE(readUE(
                     copyUE(copyUE(copyUE(copyUE(
                         copyBit(r1, 1, "motion_vectors_over_pic_boundaries_flag"),
                         "max_bytes_per_pic_denom"), "max_bits_per_mb_denom"),
                         "log2_max_mv_length_horizontal"), "log2_max_mv_length_vertical"),
                     "num_reorder_frames"), 0),
                     "max_dec_frame_buffering"),
                 Field(r1.f, "max_num_ref_frames")))

\* the VUI of the source, parsed and copied
copyVui(st) ==
    Then(Then(Then(Then(Then(Then(Then(Then(Then(st,
        aspectRatioInfo), overscanInfo), videoSignalType), chromaLocInfo), timingInfo),
        LAMBDA s : hrdParametersPresent(s, "nal_hrd_parameters_present_flag")),
        LAMBDA s : hrdParametersPresent(s, "vcl_hrd_parameters_present_flag")),
        picStruct), bitstreamRestriction)

\* vui_parameters_present_flag, written as 1, and the VUI
vuiFields(st) ==
    Then(writeBit(readU(st, 1, "vui_parameters_present_flag"), 1, 1), LAMBDA s1 :
        IF s1.threw THEN s1
        ELSE IF LastValue(s1) = 0
        THEN addBitstreamRestriction(
                 writeBit(writeBit(writeBit(writeBit(s1, 0, 2), 0, 1), 0, 5), 1, 1))
        ELSE copyVui(s1))

\* profile_idc to the VUI
spsFields(s0) ==
    Then(Then(Then(Then(Then(
        copyUE(copyU(copyU(copyU(s0, 8, "profile_idc"), 8, "constraint_flags"),
                     8, "level_idc"),
               "seq_parameter_set_id"),
        LAMBDA s4 : IF Field(s4.f, "profile_idc") \in highProfiles
                    THEN highProfileFields(s4) ELSE s4),
        LAMBDA s5 : copyUE(s5, "log2_max_frame_num_minus4")),
        picOrderFields), frameFields), vuiFields)

\* what rewriteSPSVUI returns when the VUI is written: [threw, out: the
\* buffer returned, f: the syntax elements read from the source, stopBit: the
\* writer's _bitOffset when rbsp_stop_one_bit is written]
Returned(s9) ==
    IF s9.threw THEN [threw |-> TRUE, out |-> << >>, f |-> s9.f, stopBit |-> NoArg]
    ELSE [threw |-> FALSE, out |-> flush(writeBit(s9, 1, 1).w).arr, f |-> s9.f,
          stopBit |-> s9.w.bitOffset]

\* rewriteSPSVUI(buffer) for a buffer of one byte at least
rewriteSPSVUI(buffer) == Returned(spsFields(writeU(Rewriting(buffer), buffer[1], 8)))

(* ------------------------- SPS NAL units to rewrite -------------------- *)
\* The syntax elements rewriteSPSVUI reads, written as the bits of an SPS:
\* u(n) of v, most significant bit first
Bits_u(n, v) == [i \in 1..n |-> (v \div Pow2(n - i)) % 2]

\* u(32) of hi * 2^16 + lo
Bits_u32(hi, lo) == Bits_u(16, hi) \o Bits_u(16, lo)

\* ue(v) of v
Bits_ue(v) == [i \in 1..(BitLength(v + 1) - 1) |-> 0] \o Bits_u(BitLength(v + 1), v + 1)

\* se(v) of v
Bits_se(v) == Bits_ue(IF v > 0 THEN 2 * v - 1 ELSE (0 - 2) * v)

\* the bits followed by the stop bit and the zero bits that fill the byte
WithTrailingBits(bits) ==
    LET stopped == Append(bits, 1)
    IN stopped \o [i \in 1..((8 - (Len(stopped) % 8)) % 8) |-> 0]

\* the bytes of a whole number of bytes of bits
BytesOfBits(bits) ==
    LET n == Len(bits) \div 8
    IN SubSeq([k \in 1..n |->
                  bits[8 * k - 7] * 128 + bits[8 * k - 6] * 64 + bits[8 * k - 5] * 32
                + bits[8 * k - 4] * 16 + bits[8 * k - 3] * 8 + bits[8 * k - 2] * 4
                + bits[8 * k - 1] * 2 + bits[8 * k]],
              1, n)

\* the zero bytes right before byte i
ZerosBefore(bytes, i) ==
    LET others == {j \in 1..(i - 1) : bytes[j] # 0}
    IN IF others = {} THEN i - 1
       ELSE i - 1 - (CHOOSE j \in others : \A k \in others : k <= j)

\* the bytes that need an emulation prevention byte before them: those of 3
\* or less after 00 00, counting the zero bytes since the last one inserted
EscapedBytes(bytes) ==
    {i \in 1..Len(bytes) :
        /\ bytes[i] <= 3
        /\ ZerosBefore(bytes, i) >= 2
        /\ ZerosBefore(bytes, i) % 2 = 0}

\* the bytes with the emulation prevention bytes inserted
WithEmulationPrevention(bytes) ==
    LET escaped == EscapedBytes(bytes)
        at(i) == i + Cardinality({e \in escaped : e <= i})
        n == Len(bytes) + Cardinality(escaped)
    IN SubSeq([k \in 1..n |->
                  IF \E i \in 1..Len(bytes) : at(i) = k
                  THEN bytes[CHOOSE i \in 1..Len(bytes) : at(i) = k] ELSE 3],
              1, n)

\* nal_unit_type 7 with nal_ref_idc 3
SpsNalHeader == 103

\* what a VUI of the source may carry besides the bitstream restriction
VuiParts == {"aspect_ratio", "extended_sar", "overscan", "video_signal", "colour",
             "chroma_loc", "timing", "nal_hrd", "vcl_hrd", "pic_struct"}
VuiShapes ==
    {{}, VuiParts, {"aspect_ratio"}, {"video_signal"}, {"colour"}, {"timing"},
     {"nal_hrd"}, {"vcl_hrd"}}

\* the SPSs rewritten: baseline and high profile, the three picture order
\* count types, frame and field coding, with and without cropping, without
\* VUI, with a VUI, with a VUI that has a bitstream restriction of the
\* default values or of others; a high profile without scaling matrix, with
\* one whose list has all its deltas ("explicit"), or with one whose lists
\* end before their last delta ("truncated")
SpsSyntaxes ==
    {s \in [profile_idc : {66, 100},
            scaling : {"absent", "explicit", "truncated"},
            log2_max_frame_num_minus4 : {0, 10},
            pic_order_cnt_type : {0, 1, 2},
            offset_for_non_ref_pic : {0 - 2, 0},
            max_num_ref_frames : {1, 3},
            pic_width_in_mbs_minus1 : {1, 19},
            frame_mbs_only_flag : {0, 1},
            frame_cropping_flag : {0, 1},
            vui_parameters_present_flag : {0, 1},
            vui : VuiShapes,
            restriction : {"absent", "defaults", "other"}] :
        /\ s.profile_idc = 66 => s.scaling = "absent"
        /\ s.log2_max_frame_num_minus4 = 10 <=> s.scaling = "truncated"
        /\ s.scaling = "truncated" =>
               s.pic_order_cnt_type = 0 /\ s.vui_parameters_present_flag = 0
        /\ s.pic_order_cnt_type # 1 => s.offset_for_non_ref_pic = 0 - 2
        /\ s.vui_parameters_present_flag = 0 => s.vui = {} /\ s.restriction = "absent"}

\* the deltas of the scaling lists that end early: the last delta of each
\* takes nextScale to 0, which ends the list in the standard
TruncatedLists ==
    [i \in 0..7 |-> IF i = 2 THEN << 0 - 1, 3, 0 - 10 >>
                    ELSE IF i = 4 THEN << 2, 1, 2, 0 - 1, 3, 0 - 15 >>
                    ELSE IF i = 5 THEN << 0 - 1, 0 - 1, 3, 1, 0 - 2, 0 - 8 >>
                    ELSE << >>]

\* seq_scaling_list_present_flag and the deltas of lists i to 7
RECURSIVE TruncatedListBits(_)
TruncatedListBits(i) ==
    IF i > 7 THEN << >>
    ELSE LET deltas == TruncatedLists[i]
             RECURSIVE DeltaBits(_)
             DeltaBits(j) ==
                 IF j > Len(deltas) THEN << >> ELSE Bits_se(deltas[j]) \o DeltaBits(j + 1)
         IN (IF deltas = << >> THEN << 0 >> ELSE << 1 >> \o DeltaBits(1))
            \o TruncatedListBits(i + 1)

\* the fields of a high profile, as highProfileFields reads them; an explicit
\* scaling matrix carries the first list, of sixteen deltas of 1
HighProfileBits(s) ==
    Bits_ue(1) \o Bits_ue(0) \o Bits_ue(0) \o << 0 >>
    \o (IF s.scaling = "explicit"
        THEN << 1, 1 >> \o [i \in 1..(16 * 3) |-> Bits_se(1)[((i - 1) % 3) + 1]]
                        \o << 0, 0, 0, 0, 0, 0, 0 >>
        ELSE IF s.scaling = "truncated" THEN << 1 >> \o TruncatedListBits(0)
        ELSE << 0 >>)

\* pic_order_cnt_type and what follows it, as picOrderFields reads them
PicOrderBits(s) ==
    Bits_ue(s.pic_order_cnt_type)
    \o (IF s.pic_order_cnt_type = 0 THEN Bits_ue(2)
        ELSE IF s.pic_order_cnt_type = 1
        THEN << 0 >> \o Bits_se(s.offset_for_non_ref_pic) \o Bits_se(1)
                     \o Bits_ue(1) \o Bits_se(2)
        ELSE << >>)

\* max_num_ref_frames to the cropping offsets, as frameFields reads them
FrameBits(s) ==
    Bits_ue(s.max_num_ref_frames) \o << 0 >>
    \o Bits_ue(s.pic_width_in_mbs_minus1) \o Bits_ue(8)
    \o (IF s.frame_mbs_only_flag = 0 THEN << 0, 1 >> ELSE << 1 >>)
    \o << 1 >>
    \o (IF s.frame_cropping_flag = 1
        THEN << 1 >> \o Bits_ue(0) \o Bits_ue(0) \o Bits_ue(0) \o Bits_ue(4)
        ELSE << 0 >>)

\* hrd_parameters() of one CPB, as hrdParameters reads it
HrdBits ==
    Bits_ue(0) \o Bits_u(4, 1) \o Bits_u(4, 2) \o Bits_ue(12) \o Bits_ue(5) \o << 1 >>
    \o Bits_u(5, 23) \o Bits_u(5, 23) \o Bits_u(5, 23) \o Bits_u(5, 24)

\* the values of a bitstream restriction of the source: those that
\* addBitstreamRestriction writes but for the last two, or others
RestrictionOf(s) ==
    IF s.restriction = "defaults"
    THEN [motion_vectors_over_pic_boundaries_flag |-> 1, max_bytes_per_pic_denom |-> 2,
          max_bits_per_mb_denom |-> 1, log2_max_mv_length_horizontal |-> 16,
          log2_max_mv_length_vertical |-> 16, num_reorder_frames |-> 2,
          max_dec_frame_buffering |-> 4]
    ELSE [motion_vectors_over_pic_boundaries_flag |-> 0, max_bytes_per_pic_denom |-> 0,
          max_bits_per_mb_denom |-> 0, log2_max_mv_length_horizontal |-> 10,
          log2_max_mv_length_vertical |-> 9, num_reorder_frames |-> 1,
          max_dec_frame_buffering |-> 5]

\* the bitstream restriction of the source, as copyVui reads it
RestrictionBits(s) ==
    LET b == RestrictionOf(s)
    IN << b.motion_vectors_over_pic_boundaries_flag >>
       \o Bits_ue(b.max_bytes_per_pic_denom) \o Bits_ue(b.max_bits_per_mb_denom)
       \o Bits_ue(b.log2_max_mv_length_horizontal)
       \o Bits_ue(b.log2_max_mv_length_vertical)
       \o Bits_ue(b.num_reorder_frames) \o Bits_ue(b.max_dec_frame_buffering)

\* the VUI of the source, as copyVui reads it
VuiBits(s) ==
    (IF "extended_sar" \in s.vui
     THEN << 1 >> \o Bits_u(8, 255) \o Bits_u(16, 4) \o Bits_u(16, 3)
     ELSE IF "aspect_ratio" \in s.vui THEN << 1 >> \o Bits_u(8, 1) ELSE << 0 >>)
    \o (IF "overscan" \in s.vui THEN << 1, 1 >> ELSE << 0 >>)
    \o (IF "colour" \in s.vui
        THEN << 1 >> \o Bits_u(3, 5) \o << 1, 1 >>
                     \o Bits_u(8, 1) \o Bits_u(8, 1) \o Bits_u(8, 1)
        ELSE IF "video_signal" \in s.vui THEN << 1 >> \o Bits_u(3, 5) \o << 1, 0 >>
        ELSE << 0 >>)
    \o (IF "chroma_loc" \in s.vui THEN << 1 >> \o Bits_ue(0) \o Bits_ue(1) ELSE << 0 >>)
    \o (IF "timing" \in s.vui
        THEN << 1 >> \o Bits_u32(0, 1) \o Bits_u32(0, 60) \o << 1 >> ELSE << 0 >>)
    \o (IF "nal_hrd" \in s.vui THEN << 1 >> \o HrdBits ELSE << 0 >>)
    \o (IF "vcl_hrd" \in s.vui THEN << 1 >> \o HrdBits ELSE << 0 >>)
    \o (IF "nal_hrd" \in s.vui \/ "vcl_hrd" \in s.vui THEN << 0 >> ELSE << >>)
    \o (IF "pic_struct" \in s.vui THEN << 1 >> ELSE << 0 >>)
    \o (IF s.restriction = "absent" THEN << 0 >> ELSE << 1 >> \o RestrictionBits(s))

\* the SPS NAL unit of the syntax elements s: the buffer rewriteSPSVUI is
\* called with
SpsNal(s) ==
    WithEmulationPrevention(
        << SpsNalHeader >> \o BytesOfBits(WithTrailingBits(
            Bits_u(8, s.profile_idc) \o Bits_u(8, 0) \o Bits_u(8, 31) \o Bits_ue(0)
            \o (IF s.profile_idc \in highProfiles THEN HighProfileBits(s) ELSE << >>)
            \o Bits_ue(s.log2_max_frame_num_minus4) \o PicOrderBits(s) \o FrameBits(s)
            \o (IF s.vui_parameters_present_flag = 1
                THEN << 1 >> \o VuiBits(s) ELSE << 0 >>))))

\* how many times rewriteSPSVUI is applied, to an SPS and then to what it
\* returned
MaxRewrites == 2

\* rewriteSPSVUI(buffer), called with the SPS and then with each buffer it
\* returned
RewriteSPSVUI ==
    /\ Len(rewritten) < MaxRewrites
    /\ rewritten # << >> => ~rewritten[Len(rewritten)].threw
    /\ rewritten' = Append(rewritten,
                           rewriteSPSVUI(IF rewritten = << >> THEN SpsNal(sps)
                                         ELSE rewritten[Len(rewritten)].out))
    /\ UNCHANGED <<sps, bitVars, rtcVars, appVars, connVars, daveVars, ackVars, packetizerVars, ev>>

(* --------------------------- WebRtcConnWrapper ------------------------- *)
\* what PeerConnection.state() returns
PeerStates == {"new", "connecting", "connected", "disconnected", "failed", "closed"}

\* how many frames the wrapper sends on its tracks
MaxRtcFrames == 2

\* the video codecs setPacketizer is called with, as normalizeVideoCodec
\* returns them; there is no packetizer for VP8
RtcVideoCodecs == {"H264", "H265", "VP8"}

\* get ready(), taking a connection that is being established for connected
ready_WhileConnecting(w) == w.webRtcConn \in {"connecting", "connected"}

\* get ready(): false without a PeerConnection
ready(w) == w.webRtcConn = "connected"

\* H264Helpers.getUnitType(el): the nal_unit_type of a NAL unit
getUnitType(el) == el[1] % 32

\* H264NalUnitTypes.SPS
H264NalUnitTypes_SPS == 7

\* Math.round(frametime * clockRate / 1000)
TimestampIncrement(frametime, clockRate) == (frametime * clockRate + 500) \div 1000

\* what a call leaves in last
Called(op, frame, messages, encrypts, threw, timestamp0) ==
    [op |-> op, frame |-> frame, sent |-> messages, encrypts |-> encrypts,
     threw |-> threw, timestamp0 |-> timestamp0]

\* initWebRtc(): a new PeerConnection with its two tracks
initWebRtc(w) ==
    [w EXCEPT !.webRtcConn = "new",
              !.last = Called("initWebRtc", << >>, << >>, 0, FALSE, 0)]

\* close()
close(w) ==
    [w EXCEPT !.webRtcConn = IF @ = "none" THEN @ ELSE "closed",
              !.last = Called("close", << >>, << >>, 0, FALSE, 0)]

\* setPacketizer(videoCodec), webRtcParams telling whether the media
\* connection has its WebRTC parameters
setPacketizer(w, videoCodec, webRtcParams) ==
    IF ~webRtcParams THEN [w EXCEPT !.last = Called("setPacketizer", << >>, << >>, 0, TRUE, 0)]
    ELSE LET w1 == [w EXCEPT !.audioPacketizer = TRUE, !.audioTimestamp = 0,
                             !.videoCodec = videoCodec]
         IN IF videoCodec \in {"H264", "H265", "AV1"}
            THEN [w1 EXCEPT !.videoPacketizer = TRUE, !.videoTimestamp = 0,
                            !.last = Called("setPacketizer", << >>, << >>, 0, FALSE, 0)]
            ELSE [w1 EXCEPT !.last = Called("setPacketizer", << >>, << >>, 0, TRUE, 0)]

\* sendAudioFrame(frame, frametime), daveReady being mediaConnection.daveReady
sendAudioFrame(w, frame, frametime, daveReady) ==
    IF ~ready(w) \/ ~w.audioPacketizer
    THEN [w EXCEPT !.last = Called("sendAudioFrame", frame, << >>, 0, FALSE, w.audioTimestamp)]
    ELSE [w EXCEPT
             !.last = Called("sendAudioFrame", frame,
                             << [track |-> "audio", frame |-> frame, startCode3 |-> FALSE,
                                 encrypted |-> daveReady] >>,
                             IF daveReady THEN 1 ELSE 0, FALSE, w.audioTimestamp),
             !.audioTimestamp = @ + TimestampIncrement(frametime, AudioClockRate),
             !.frames = @ + 1]

\* the frame after the map over splitNalu(frame): whether the callback
\* threw on a NAL unit, the NAL units it returned, whether one was an SPS
Mapped(each, isSps) ==
    [threw |-> \E i \in DOMAIN each : each[i].threw,
     nalus |-> [i \in DOMAIN each |-> each[i].out],
     spsRewritten |-> \E i \in DOMAIN each : isSps[i]]

\* splitNalu(frame).map(...): an SPS is replaced by rewriteSPSVUI(el)
RewrittenNalus(nalus) ==
    Mapped([i \in 1..Len(nalus) |->
               IF getUnitType(nalus[i]) = H264NalUnitTypes_SPS
               THEN rewriteSPSVUI(nalus[i])
               ELSE [threw |-> FALSE, out |-> nalus[i]]],
           [i \in 1..Len(nalus) |-> getUnitType(nalus[i]) = H264NalUnitTypes_SPS])

\* sendVideoFrame from the map on: the error it lets through, or the frame
\* joined, encrypted with a ready secure session, sent, and the timestamp
\* advanced
sendMapped(w, nalus, mapped, frametime, daveReady) ==
    IF mapped.threw
    THEN [w EXCEPT !.last = Called("sendVideoFrame", nalus, << >>, 0, TRUE,
                                   w.videoTimestamp)]
    ELSE [w EXCEPT
             !.last = Called("sendVideoFrame", nalus,
                             << [track |-> "video", frame |-> mapped.nalus,
                                 startCode3 |-> mapped.spsRewritten,
                                 encrypted |-> daveReady] >>,
                             IF daveReady THEN 1 ELSE 0, FALSE, w.videoTimestamp),
             !.videoTimestamp = @ + TimestampIncrement(frametime, VideoClockRate),
             !.frames = @ + 1]

\* sendVideoFrame(frame, frametime), the frame given as the NAL units
\* splitNalu(frame) returns
sendVideoFrame(w, nalus, frametime, daveReady) ==
    IF ~ready(w) \/ ~w.videoPacketizer
    THEN [w EXCEPT !.last = Called("sendVideoFrame", nalus, << >>, 0, FALSE, w.videoTimestamp)]
    ELSE sendMapped(w, nalus,
                    IF w.videoCodec = "H264" THEN RewrittenNalus(nalus)
                    ELSE [threw |-> FALSE, nalus |-> nalus, spsRewritten |-> FALSE],
                    frametime, daveReady)

\* an Opus frame
OpusFrame == << << 252, 255, 254 >> >>

\* a slice NAL unit of an IDR picture
IdrNal == << 101, 136, 132 >>

\* the SPS cut after its level_idc
TruncatedSps(s) == SubSeq(SpsNal(s), 1, 4)

\* the access units sent: without SPS, with the SPS, with the SPS truncated
RtcVideoFrames(s) == {<< IdrNal >>, << SpsNal(s), IdrNal >>, << TruncatedSps(s), IdrNal >>}

\* the SPSs of the access units: one rewriteSPSVUI rewrites, and one on
\* which it throws for its offset_for_non_ref_pic of 0
RtcSpsSyntaxes ==
    {BaselineSps,
     [BaselineSps EXCEPT !.pic_order_cnt_type = 1, !.offset_for_non_ref_pic = 0]}

\* what is left alone by the calls on the wrapper
RtcUnchanged ==
    UNCHANGED <<spsVars, bitVars, appVars, connVars, daveVars, ackVars, packetizerVars, ev>>

InitWebRtc ==
    /\ rtc.webRtcConn = "none"
    /\ rtc' = initWebRtc(rtc)
    /\ RtcUnchanged

\* the PeerConnection changes state
WebRtcStateChange(state) ==
    /\ rtc.webRtcConn \notin {"none", "closed"}
    /\ state \notin {"new", rtc.webRtcConn}
    /\ rtc' = [rtc EXCEPT !.webRtcConn = state]
    /\ RtcUnchanged

WebRtcClose ==
    /\ rtc' = close(rtc)
    /\ RtcUnchanged

WebRtcSetPacketizer(videoCodec, webRtcParams) ==
    /\ rtc' = setPacketizer(rtc, videoCodec, webRtcParams)
    /\ RtcUnchanged

WebRtcSendAudioFrame(frametime, daveReady) ==
    /\ rtc.frames < MaxRtcFrames
    /\ rtc' = sendAudioFrame(rtc, OpusFrame, frametime, daveReady)
    /\ RtcUnchanged

WebRtcSendVideoFrame(nalus, frametime, daveReady) ==
    /\ rtc.frames < MaxRtcFrames
    /\ rtc' = sendVideoFrame(rtc, nalus, frametime, daveReady)
    /\ RtcUnchanged

(* --------------------------- specifications --------------------------- *)
\* The connection lifecycle: credentials, start/stop, socket open and close
\* events, heartbeat, Resumed.
NextConn ==
    \/ \E id \in {1} : setSession(id)
    \/ \E tok \in {1} : setTokens(tok)
    \/ Start
    \/ Stop
    \/ \E c \in Channels : WsOpen(c)
    \/ \E c \in Channels, code \in CloseCodes : WsClose(c, code)
    \/ \E c \in Channels : Hello(c)
    \/ HeartbeatTick
    \/ \E c \in Channels : Resumed(c)

\* The lifecycle of the connection over UDP.
NextConnUdp ==
    \/ \E id \in {1} : setSession(id)
    \/ \E tok \in {1} : setTokens(tok)
    \/ Start
    \/ StopUdp
    \/ \E c \in Channels : WsOpen(c)
    \/ \E c \in Channels, code \in CloseCodes : WsCloseUdp(c, code)
    \/ \E c \in Channels : Hello(c)
    \/ HeartbeatTick
    \/ \E c \in Channels : Resumed(c)

\* The DAVE messages a socket delivers while it is open or closing.
NextDaveMessages ==
    \/ \E c \in Channels, t \in TransitionIds, v \in Versions : PrepareTransition(c, t, v)
    \/ \E c \in Channels, t \in TransitionIds : ExecuteTransition(c, t)
    \/ \E c \in Channels, e \in {1, 2}, v \in Versions : PrepareEpoch(c, e, v)
    \/ \E c \in Channels, op \in BinaryOps, t \in TransitionIds, a \in BOOLEAN,
          r \in {"none", "commit", "commit+welcome"} : BinaryMessage(c, op, t, a, r)

\* The DAVE handlers leave the lifecycle fields alone and read of them only
\* whether this.ws is OPEN, and the lifecycle leaves the DAVE fields alone.
\* SpecDave therefore drives the socket just far enough to deliver messages
\* on an open socket and on a closing one.
NextDave ==
    \/ \E id \in {1} : setSession(id)
    \/ \E tok \in {1} : setTokens(tok)
    \/ \E c \in Channels : WsOpen(c)
    \/ Stop
    \/ NextDaveMessages

\* The DAVE messages of the connection over UDP.
NextDaveUdp ==
    \/ \E id \in {1} : setSession(id)
    \/ \E tok \in {1} : setTokens(tok)
    \/ \E c \in Channels : WsOpen(c)
    \/ StopUdp
    \/ \E c \in Channels, t \in TransitionIds, v \in Versions : PrepareTransition(c, t, v)
    \/ \E c \in Channels, t \in TransitionIds : ExecuteTransition(c, t)
    \/ \E c \in Channels, e \in {1, 2}, v \in Versions : PrepareEpoch(c, e, v)
    \/ \E c \in Channels, op \in BinaryOps, t \in TransitionIds, a \in BOOLEAN,
          w \in BOOLEAN, r \in {"none", "commit", "commit+welcome"}, data \in BinaryData :
          BinaryMessageUdp(c, data, op, t, a, w, r)

\* Ready and the protocol acknowledgement.  As for the DAVE messages, the
\* handlers read of the lifecycle only whether this.ws is OPEN.
NextAckMessages ==
    \/ \E c \in Channels : Ready(c)
    \/ \E ok \in BOOLEAN : OfferSettled(ok)
    \/ \E c \in Channels, sdp \in BOOLEAN, v \in Versions : ProtocolAck(c, sdp, v)
    \/ \E v \in Versions, ok \in BOOLEAN : ProtocolAckSettled(v, ok)

NextAck ==
    \/ \E id \in {1} : setSession(id)
    \/ \E tok \in {1} : setTokens(tok)
    \/ \E c \in Channels : WsOpen(c)
    \/ Stop
    \/ NextAckMessages

\* A Streamer call and the life of the connection it makes, up to the
\* readiness callback.
NextStreamer ==
    \/ \E loggedIn \in BOOLEAN : JoinVoice(loggedIn)
    \/ \E loggedIn \in BOOLEAN, conn \in BOOLEAN, sess \in BOOLEAN :
          CreateStream(loggedIn, conn, sess)
    \/ \E id \in {1} : ConnectionMade /\ setSession(id)
    \/ \E tok \in {1} : ConnectionMade /\ setTokens(tok)
    \/ \E c \in Channels : ConnectionMade /\ WsOpen(c)
    \/ ConnectionMade /\ Stop
    \/ ConnectionMade /\ NextAckMessages

\* One playStream call: its options, the streams' frames, the end of the
\* inputs, the abort signal and the preview decoder, in every order.
NextPlay ==
    \/ \E type \in StreamTypes, res \in {"resolves", "pending"}, hasAudio \in BOOLEAN,
          burst \in BurstOptions, preview \in BOOLEAN :
          PlayStream(type, res, hasAudio, burst, preview)
    \/ StreamCreated
    \/ Abort
    \/ \E ok \in BOOLEAN : DecoderCreated(ok)
    \/ EmitVideo
    \/ EmitAudio
    \/ VideoFinish
    \/ AudioFinish

\* Prepare and execute messages alone, over more transition ids.
NextTransitions ==
    \/ \E id \in {1} : setSession(id)
    \/ \E tok \in {1} : setTokens(tok)
    \/ \E c \in Channels : WsOpen(c)
    \/ Stop
    \/ \E c \in Channels, t \in PreparedIds, v \in Versions : PrepareTransition(c, t, v)
    \/ \E c \in Channels, t \in PreparedIds : ExecuteTransition(c, t)

\* One sendFrame call on a track, over every access unit.
NextPacketizer ==
    \/ \E ft \in Frametimes : FirstCall /\ SendAudioFrame(ft)
    \/ \E sizes \in AccessUnits(codec), ft \in Frametimes :
          FirstCall /\ SendVideoFrame(sizes, ft)

\* The sendFrame calls of one track, one after the other (the caller awaits
\* each), over the access units of TrackUnits.
NextTrack ==
    \/ \E ft \in Frametimes : SendAudioFrame(ft)
    \/ \E sizes \in TrackUnits(codec), ft \in Frametimes : SendVideoFrame(sizes, ft)

Next == NextConn \/ NextDaveMessages \/ NextAckMessages \/ NextPacketizer

Spec == Init /\ [][Next]_vars

SpecConn == Init /\ [][NextConn]_vars

SpecConnUdp == Init /\ [][NextConnUdp]_vars

SpecDave == Init /\ [][NextDave]_vars

SpecDaveUdp == Init /\ [][NextDaveUdp]_vars

SpecAck == Init /\ [][NextAck]_vars

SpecStreamer == Init /\ [][NextStreamer]_vars

SpecPlay == Init /\ [][NextPlay]_vars

SpecTransitions == Init /\ [][NextTransitions]_vars

\* Exp-Golomb values written: the small ones, and some whose code is longer
\* than one and than two bytes
GolombValues == (0..MaxGolomb) \cup {254, 255, 65534}
SignedValues == ((0 - MaxSigned)..MaxSigned) \cup {0 - 128, 127}

\* Exp-Golomb fields written at any bit offset, flushed, and read back in
\* the order they were written.
NextGolomb ==
    \/ \E b \in {0, 1} : WriteBits(b, 1)
    \/ \E v \in GolombValues : WriteUnsignedExpGolomb(v)
    \/ \E v \in SignedValues : WriteSignedExpGolomb(v)
    \/ FlushToReader
    \/ ReadField

SpecGolomb == Init /\ [][NextGolomb]_vars

\* writeBits calls as [count, bits]: single bits, seven bits that end a byte
\* begun by one bit, whole bytes on both sides of 3, and two zero bytes
RawWrites == {<<1, 0>>, <<1, 1>>, <<7, 1>>, <<7, 2>>, <<8, 0>>, <<8, 3>>, <<8, 4>>,
              <<16, 0>>}
ReadCounts == {1, 8, 16}

\* Bits written with any split into writeBits calls, flushed, and read with
\* any split into readBits calls, up to the bits that were written.
NextEmulation ==
    \/ \E wr \in RawWrites : WriteBits(wr[2], wr[1])
    \/ FlushToReader
    \/ \E count \in ReadCounts :
          /\ Len(bitLog.read) < MaxReads
          /\ BitsOf(bitLog.read) + count <= BitsOf(bitLog.written)
          /\ ReadBits(count)

SpecEmulation == Init /\ [][NextEmulation]_vars

\* the bytes of the buffers given to a reader as they are: zero, the escape
\* byte, and a byte with the first and the last bit set
BufferBytes == {0, 3, 129}
Buffers == UNION {[1..n -> BufferBytes] : n \in 0..MaxBufferLen}

\* new AnnexBBitstreamReader(buffer) on any buffer
InitReader ==
    /\ InitConnection
    /\ InitPacketizer("opus", 0, Word32(0, 0))
    /\ writer = NewWriter
    /\ \E buffer \in Buffers : reader = NewReader(buffer)
    /\ bitLog = [phase |-> "reading", written |-> << >>, read |-> << >>]
    /\ NoRewrite
    /\ NoWebRtc /\ NoApp

\* readBits calls on such a reader, to the end of the buffer and beyond.
NextReader ==
    \E count \in ReadCounts : Len(bitLog.read) < MaxReads /\ ReadBits(count)

SpecReader == InitReader /\ [][NextReader]_vars

\* a track of each codec, newly constructed or three packets and less than
\* one frame before its counters wrap
InitTrack ==
    /\ InitConnection
    /\ InitBitstream
    /\ NoRewrite
    /\ NoWebRtc /\ NoApp
    /\ \E c \in Codecs :
          \/ InitPacketizer(c, 0, Word32(0, 0))
          \/ InitPacketizer(c, max_int16bit - 3,
                            Word32(max_int16bit - 1, max_int16bit - 500))

SpecPacketizer == InitTrack /\ [][NextPacketizer]_vars

SpecTrack == InitTrack /\ [][NextTrack]_vars

(* ------------------------------- claims -------------------------------- *)
ClientCalls == {"setSession", "setTokens", "start"}

\* C1: after stop() on a connection whose control channel is open, no new
\* control channel is opened by any later event until the client calls
\* setSession()/setTokens() again, and the heartbeat timer is not active.
C1_StopIsFinal ==
    [][stopRequested' => (~interval' /\ (stopRequested => ws' = ws))]_vars

\* C2: every open event sends exactly one handshake message on the socket
\* that opened: Resume when the resuming flag was set, which clears the flag,
\* otherwise Identify.
C2_OneHandshakePerOpen ==
    [][ev'.op = "open" =>
        /\ ~ev'.threw
        /\ ev'.out = << Msg(IF status.resuming THEN "RESUME" ELSE "IDENTIFY",
                            NoArg, ev'.ch) >>
        /\ ~status'.resuming]_vars

\* C2 witness: an open event answered with Resume, the flag cleared
C2_Witness ==
    /\ ev.op = "open"
    /\ ev.out = << Msg("RESUME", NoArg, ev.ch) >>
    /\ ~status.resuming

\* C3: start(), called directly or by setSession()/setTokens(), while a
\* credential flag is false or started is true opens no socket and leaves
\* started, resuming and this.ws as they were.
C3_StartGuard ==
    [][(/\ ev'.op \in ClientCalls
        /\ (~status'.hasSession \/ ~status'.hasToken \/ status.started))
       => /\ ws' = ws
          /\ sockets' = sockets
          /\ status'.started = status.started
          /\ status'.resuming = status.resuming]_vars

\* C3 witness: a client call made while the connection is started
C3_Witness ==
    /\ ev.op \in ClientCalls
    /\ ev.branch = "noop"
    /\ status.started
    /\ sockets[ws].readyState = "OPEN"

\* the close codes the claim calls resumable
C4_Resumable(code) == code = 4015 \/ code < 4000

\* C4: a close event while started with code 4015 or a code below 4000 sets
\* the resuming flag and opens a new socket, whose open event sends Resume;
\* a close event with any other code opens no socket and leaves started
\* false, and started stays false until the client calls in again.
C4_CloseHandling ==
    /\ [][(ev'.op = "close" /\ status.started /\ C4_Resumable(ev'.arg))
          => /\ status'.resuming /\ status'.started
             /\ ws' # ws
             /\ sockets'[ws'].readyState = "CONNECTING"
             /\ sockets'[ws'].byReconnect]_vars
    /\ [][(ev'.op = "close" /\ ~(status.started /\ C4_Resumable(ev'.arg)))
          => /\ ws' = ws
             /\ ~status'.started
             /\ \A c \in Channels : sockets'[c].readyState # "CONNECTING"]_vars
    /\ [][(ev'.op = "open" /\ sockets[ev'.ch].byReconnect)
          => ev'.out = << Msg("RESUME", NoArg, ev'.ch) >>]_vars
    /\ [][(~status.started /\ status'.started) => ev'.op \in ClientCalls]_vars

\* C4 witness: the socket opened by a resumable close has opened and Resume
\* was sent on it
C4_Witness ==
    /\ ev.op = "open"
    /\ sockets[ev.ch].byReconnect
    /\ ev.out = << Msg("RESUME", NoArg, ev.ch) >>

(* ---------------------------- DAVE claims ------------------------------ *)
ReadyReplies(out) == {i \in 1..Len(out) : out[i].op = "DAVE_TRANSITION_READY"}
InvalidCommits(out) == {i \in 1..Len(out) : out[i].op = "MLS_INVALID_COMMIT_WELCOME"}

\* C5: DAVE_EXECUTE_TRANSITION for an id that is not pending changes neither
\* the active version, the downgraded flag, the pending map nor the secure
\* session, and raises no error.
C5_UnknownExecuteIsNoop ==
    [][(/\ ev'.op = "DAVE_EXECUTE_TRANSITION"
        /\ ev'.arg \notin DOMAIN davePendingTransitions)
       => /\ daveProtocolVersion' = daveProtocolVersion
          /\ daveDowngraded' = daveDowngraded
          /\ davePendingTransitions' = davePendingTransitions
          /\ daveSession' = daveSession
          /\ ~ev'.threw]_vars

\* C5 witness: an unknown id was executed while another transition is
\* pending and a nonzero version is active
C5_Witness ==
    /\ ev.op = "DAVE_EXECUTE_TRANSITION"
    /\ ev.arg \notin DOMAIN davePendingTransitions
    /\ ev.branch = "unrecognized"
    /\ DOMAIN davePendingTransitions # {}
    /\ daveProtocolVersion # 0

\* C6: DAVE_PREPARE_TRANSITION with transition id 0 takes effect inside the
\* handler: the active version is the announced one, id 0 is not pending,
\* and no transition-ready was sent.
C6_PrepareZeroIsImmediate ==
    [][(ev'.op = "DAVE_PREPARE_TRANSITION" /\ ev'.arg = 0)
       => /\ daveProtocolVersion' = ev'.val
          /\ 0 \notin DOMAIN davePendingTransitions'
          /\ ReadyReplies(ev'.out) = {}
          /\ ~ev'.threw]_vars

\* C6 witness: id 0 announced version 1 on an open socket and it is active
C6_Witness ==
    /\ ev.op = "DAVE_PREPARE_TRANSITION"
    /\ ev.arg = 0
    /\ ev.val = 1
    /\ daveProtocolVersion = 1
    /\ WsIsOpen(ws, sockets)

\* the switch-over part of C7: executing a pending id makes its recorded
\* target the active version and removes that id, and only that id
C7_ExecuteSwitchesOver ==
    (ev'.op = "DAVE_EXECUTE_TRANSITION" /\ ev'.arg \in DOMAIN davePendingTransitions)
    => /\ daveProtocolVersion' = davePendingTransitions[ev'.arg]
       /\ davePendingTransitions' = MapDelete(davePendingTransitions, ev'.arg)

C8_Executes ==
    \/ ev'.op = "DAVE_EXECUTE_TRANSITION" /\ ev'.arg \in DOMAIN davePendingTransitions
    \/ ev'.op = "DAVE_PREPARE_TRANSITION" /\ ev'.arg = 0
C8_Target ==
    IF ev'.op = "DAVE_EXECUTE_TRANSITION" THEN davePendingTransitions[ev'.arg] ELSE ev'.val
C8_IsDowngrade == C8_Executes /\ daveProtocolVersion # 0 /\ C8_Target = 0
C8_Rearmed == daveSession.exists => daveSession'.passthrough = 10

\* C8 as stated: a switch from a nonzero version to 0 sets the downgraded
\* flag; while it is set, executing an upgrade (nonzero target) with id > 0
\* clears it and re-arms a 10-unit passthrough window; the flag changes at
\* no other time.
C8_DowngradedFlag_AsClaimed ==
    /\ [][C8_IsDowngrade => daveDowngraded']_vars
    /\ [][(C8_Executes /\ daveDowngraded /\ ev'.arg > 0 /\ C8_Target # 0)
          => (~daveDowngraded' /\ C8_Rearmed)]_vars
    /\ [][(daveDowngraded' # daveDowngraded)
          => \/ C8_IsDowngrade
             \/ C8_Executes /\ daveDowngraded /\ ev'.arg > 0 /\ C8_Target # 0]_vars

\* C8, what the code does instead: the flag is cleared (and the window
\* re-armed) by every executed transition with id > 0 that is not itself a
\* switch from a nonzero version to 0, whatever its target: also by one that
\* leaves the version at 0.
C8_DowngradedFlag ==
    /\ [][C8_IsDowngrade => daveDowngraded']_vars
    /\ [][(C8_Executes /\ daveDowngraded /\ ev'.arg > 0 /\ ~C8_IsDowngrade)
          => (~daveDowngraded' /\ C8_Rearmed)]_vars
    /\ [][(daveDowngraded' # daveDowngraded)
          => \/ C8_IsDowngrade
             \/ C8_Executes /\ daveDowngraded /\ ev'.arg > 0 /\ ~C8_IsDowngrade]_vars

\* C8 witness: an execute with id > 0 cleared the flag and re-armed the
\* window of an existing secure session
C8_Witness ==
    /\ ev.op = "DAVE_EXECUTE_TRANSITION"
    /\ ev.arg > 0
    /\ ev.branch = "upgraded"
    /\ ~daveDowngraded
    /\ daveProtocolVersion # 0
    /\ daveSession.exists /\ daveSession.passthrough = 10

\* the step handles a commit announcement or a welcome that the secure
\* session rejects
C9_Rejected ==
    /\ ev'.op \in {"MLS_ANNOUNCE_COMMIT_TRANSITION", "MLS_WELCOME"}
    /\ ev'.branch = "rejected"

\* what initDave() leaves behind in the secure session
C9_InitDaveRan ==
    /\ daveProtocolVersion' = daveProtocolVersion
    /\ daveDowngraded' = daveDowngraded
    /\ daveProtocolVersion # 0 =>
          /\ daveSession'.exists
          /\ daveSession'.version = daveProtocolVersion
          /\ daveSession'.call = IF daveSession.exists THEN "reinit" ELSE "new"
    /\ daveProtocolVersion = 0 =>
          daveSession' = IF daveSession.exists
                         THEN [daveSession EXCEPT !.call = "reset", !.passthrough = 10]
                         ELSE daveSession

\* the messages of a rejected commit when they go out: one invalid-commit
\* with the transition id, then the key package when a version is active
C9_Replies ==
    << Msg("MLS_INVALID_COMMIT_WELCOME", ev'.arg, ws) >>
    \o (IF daveProtocolVersion # 0 THEN << Msg("MLS_KEY_PACKAGE", NoArg, ws) >> ELSE << >>)

\* C9 as stated: a rejected commit or welcome sends exactly one
\* invalid-commit with the message's transition id, then runs initDave(),
\* adds nothing to the pending map, sends no transition-ready, throws nothing.
C9_InvalidCommit_AsClaimed ==
    [][C9_Rejected
       => /\ ev'.out = C9_Replies
          /\ C9_InitDaveRan
          /\ davePendingTransitions' = davePendingTransitions
          /\ ReadyReplies(ev'.out) = {}
          /\ ~ev'.threw]_vars

\* C9 amended: as C9, but the invalid-commit (and the key package) go out
\* only when this.ws is open; while the socket is closing nothing is sent
\* and initDave() still runs.
C9_InvalidCommit ==
    [][C9_Rejected
       => /\ ev'.out = IF WsIsOpen(ws, sockets) THEN C9_Replies ELSE << >>
          /\ Cardinality(InvalidCommits(ev'.out)) = IF WsIsOpen(ws, sockets) THEN 1 ELSE 0
          /\ C9_InitDaveRan
          /\ davePendingTransitions' = davePendingTransitions
          /\ ReadyReplies(ev'.out) = {}
          /\ ~ev'.threw]_vars

\* C9 witness: a rejected commit with a nonzero transition id was answered
\* with one invalid-commit, and initDave() reinitialised the session
C9_Witness ==
    /\ ev.op = "MLS_ANNOUNCE_COMMIT_TRANSITION"
    /\ ev.branch = "rejected"
    /\ ev.arg # 0
    /\ Len(ev.out) = 2
    /\ ev.out[1] = Msg("MLS_INVALID_COMMIT_WELCOME", ev.arg, ws)
    /\ daveSession.call = "reinit"

\* C10: no binary control message, in any session state, lets an exception
\* escape handleBinaryMessages.
C10_BinaryNeverThrows == ev.op \in BinaryOps => ~ev.threw

KeyPackages(out) == {i \in 1..Len(out) : out[i].op = "MLS_KEY_PACKAGE"}

\* the step runs initDave(): a DAVE_PREPARE_EPOCH for epoch 1, or a commit or
\* welcome the secure session rejects
C11_RunsInitDave ==
    \/ ev'.op = "DAVE_PREPARE_EPOCH" /\ ev'.arg = 1
    \/ C9_Rejected

\* what initDave() does to the secure session: with a nonzero version one
\* session bound to it, constructed only when none existed; with version 0
\* no session is created and an existing one is reset into a 10-unit
\* passthrough window
C11_Session ==
    IF daveProtocolVersion' # 0
    THEN /\ daveSession'.exists
         /\ daveSession'.version = daveProtocolVersion'
         /\ daveSession'.call = IF daveSession.exists THEN "reinit" ELSE "new"
    ELSE /\ daveSession'.exists = daveSession.exists
         /\ daveSession.exists =>
               daveSession' = [daveSession EXCEPT !.call = "reset", !.passthrough = 10]
         /\ KeyPackages(ev'.out) = {}

\* C11 as stated: initDave() with a nonzero version leaves one session bound
\* to that version (constructed only if none existed, else reinitialised) and
\* then sends one key package; with version 0 it sends nothing, creates no
\* session and resets an existing one into a 10-unit passthrough window.
C11_InitDave_AsClaimed ==
    [][C11_RunsInitDave
       => /\ C11_Session
          /\ daveProtocolVersion' # 0 =>
                /\ Cardinality(KeyPackages(ev'.out)) = 1
                /\ ev'.out[Len(ev'.out)] = Msg("MLS_KEY_PACKAGE", NoArg, ws)]_vars

\* C11 amended: as C11, but the key package goes out only when this.ws is
\* open; when initDave() runs while the socket is closing the session is
\* (re)initialised all the same and nothing is sent.
C11_InitDave ==
    [][C11_RunsInitDave
       => /\ C11_Session
          /\ (daveProtocolVersion' # 0 /\ WsIsOpen(ws, sockets)) =>
                /\ Cardinality(KeyPackages(ev'.out)) = 1
                /\ ev'.out[Len(ev'.out)] = Msg("MLS_KEY_PACKAGE", NoArg, ws)
          /\ ~WsIsOpen(ws, sockets) => ev'.out = << >>]_vars

\* C11 witness: DAVE_PREPARE_EPOCH for epoch 1 with a nonzero version went
\* through initDave() while a session existed: it was reinitialised for that
\* version and one key package was sent
C11_Witness ==
    /\ ev.op = "DAVE_PREPARE_EPOCH" /\ ev.arg = 1 /\ ev.val # 0
    /\ daveSession.exists /\ daveSession.call = "reinit"
    /\ daveSession.version = ev.val
    /\ ev.out = << Msg("MLS_KEY_PACKAGE", NoArg, ws) >>

\* C12: this.ready is invoked for a Ready message only by the completion of
\* a handleProtocolAck that ran after that Ready was handled, in the step in
\* which the negotiated version was captured and initDave() ran, and at most
\* once per Ready message.
C12_ReadyAfterAck ==
    /\ [][\A r \in ReadyIds :
            readyCalls'[r].calls # readyCalls[r].calls
            => /\ readyCalls[r].promise = "pending"
               /\ ev'.op = "handleProtocolAck" /\ ev'.branch = "resolved"
               /\ daveProtocolVersion' = ev'.val
               /\ C11_Session
               /\ readyCalls'[r].acked]_vars
    /\ [][\A r \in ReadyIds : readyCalls'[r].calls <= 1]_vars

\* C12 witness: two Ready messages were handled, an acknowledgement with a
\* nonzero version completed after both, and this.ready ran once for each
C12_Witness ==
    /\ ev.op = "handleProtocolAck" /\ ev.val # 0
    /\ \A r \in {1, 2} : readyCalls[r].calls = 1 /\ readyCalls[r].acked
    /\ daveProtocolVersion = ev.val
    /\ daveSession.exists

\* C13: every close event, whatever its code and whether or not a reconnect
\* follows, leaves no heartbeat timer running, and a timer is started only
\* by Hello: no tick fires between a close and the next Hello.
C13_CloseClearsHeartbeat ==
    /\ [][ev'.op = "close" => ~interval']_vars
    /\ [][(~interval /\ interval') => ev'.op = "HELLO"]_vars
    /\ [][ev'.op = "tick" => interval]_vars

\* C13 witness: a close event was handled while a heartbeat timer was due to
\* the Hello of the closed socket, and a reconnect followed
C13_Witness ==
    /\ ev.op = "close" /\ ev.branch = "reconnect"
    /\ ~interval
    /\ sockets[ws].readyState = "CONNECTING"

\* C14: in every reachable state started is true only if hasSession and
\* hasToken are both true.
C14_StartedNeedsCredentials ==
    status.started => (status.hasSession /\ status.hasToken)

\* C14 witness: Resumed, which sets started without looking at the
\* credential flags, was handled on a socket opened by a reconnect
C14_Witness ==
    /\ ev.op = "RESUMED"
    /\ sockets[ev.ch].byReconnect
    /\ status.started

\* C15: while a transition t is pending, a DAVE_PREPARE_TRANSITION that
\* announces an id lower than t is not accepted: the pending map stays as it
\* is and no transition-ready is sent for it.
C15_LowerIdNotAccepted ==
    [][(/\ ev'.op = "DAVE_PREPARE_TRANSITION"
        /\ \E t \in DOMAIN davePendingTransitions : ev'.arg < t)
       => /\ davePendingTransitions' = davePendingTransitions
          /\ ReadyReplies(ev'.out) = {}]_vars

(* -------------------------- packetizer claims -------------------------- *)
\* C16: on one track every packet's sequence number is the previous
\* packet's plus 1 modulo 65536, inside a sendFrame call and from one call
\* to the next, for single, aggregated and fragmented packets alike.
C16_ConsecutiveSequence ==
    LET pk == sent.packets
    IN /\ \A i \in 1..(Len(pk) - 1) :
             pk[i + 1].sequenceNumber = (pk[i].sequenceNumber + 1) % 65536
       /\ (pk # << >> /\ track.lastSeq # NoArg) =>
             pk[1].sequenceNumber = (track.lastSeq + 1) % 65536
       /\ \A i \in 1..Len(pk) : pk[i].sequenceNumber \in 0..65535

\* C16 witness: the sequence number wrapped from 65535 to 0 between two
\* fragments of one NAL, in the second sendFrame call of the track
C16_Witness ==
    /\ track.lastSeq # NoArg
    /\ \E i \in 1..(Len(sent.packets) - 1) :
          /\ sent.packets[i].sequenceNumber = 65535
          /\ sent.packets[i + 1].sequenceNumber = 0
          /\ sent.packets[i].kind = "fragment"
          /\ sent.packets[i + 1].kind = "fragment"

\* the 32-bit difference b - a, when it is below 2^26 (else -1)
C17_Elapsed(a, b) ==
    LET dh == (b.hi - a.hi + 65536) % 65536
        dl == b.lo - a.lo
    IN IF dl >= 0
       THEN (IF dh < 1024 THEN dh * 65536 + dl ELSE 0 - 1)
       ELSE (IF 0 < dh /\ dh <= 1024 THEN (dh - 1) * 65536 + (dl + 65536) ELSE 0 - 1)

C17_ClockRate == IF codec = "opus" THEN 48000 ELSE 90000

\* C17: every packet of a frame carries the same RTP timestamp, the sum of
\* the durations of the frames sent before it times clockRate/1000, modulo
\* 2^32 (counted from the timestamp the track started with).
C17_TimestampIsElapsedTime ==
    \A i \in 1..Len(sent.packets) :
        C17_Elapsed(track.timestamp0, sent.packets[i].timestamp)
            = (track.ms * C17_ClockRate) \div 1000

\* C17 for Opus alone, which is where it holds
C17_OpusTimestamps == codec = "opus" => C17_TimestampIsElapsedTime

\* the second Opus frame of a track, after a first one of 20 ms that took
\* the timestamp across 2^32: its packet is 960 later
C17_OpusWitness ==
    /\ codec = "opus" /\ track.frames = 2 /\ track.ms = 20
    /\ track.timestamp0.hi = 65535
    /\ Len(sent.packets) = 1
    /\ sent.packets[1].timestamp.hi = 0
    /\ C17_Elapsed(track.timestamp0, sent.packets[1].timestamp) = 960

\* the packets of the last call that are fragments
C18_Fragments == {i \in 1..Len(sent.packets) : sent.packets[i].kind = "fragment"}

\* C18: for an access unit of one or more non-empty NALs, exactly one of the
\* packets a sendFrame call emits has the marker bit set, and it is the last
\* packet of the call.
C18_OneMarkerOnLastPacket ==
    (codec \in VideoCodecs /\ sent.nalus # << >>) =>
        LET pk == sent.packets
        IN /\ pk # << >>
           /\ pk[Len(pk)].marker
           /\ \A i \in 1..(Len(pk) - 1) : ~pk[i].marker

\* C18 witness: a call that flushed a small NAL, fragmented a NAL in the
\* middle of the access unit and ended on a small NAL
C18_Witness ==
    /\ codec \in VideoCodecs
    /\ Len(sent.packets) >= 4
    /\ sent.packets[1].kind = "single"
    /\ sent.packets[2].kind = "fragment"
    /\ sent.packets[Len(sent.packets)].kind = "single"
    /\ sent.packets[Len(sent.packets)].marker

\* the bytes of the input a payload carries, in the payload's order
C19_NalBytes(payload) == SelectSeq(payload, LAMBDA b : b.src = "nal")

RECURSIVE C19_Carried(_, _)
C19_Carried(pk, upto) ==
    IF upto = 0 THEN << >>
    ELSE C19_Carried(pk, upto - 1) \o C19_NalBytes(pk[upto].payload)

RECURSIVE C19_Concat(_)
C19_Concat(seqs) == IF seqs = << >> THEN << >> ELSE Head(seqs) \o C19_Concat(Tail(seqs))

\* the body of an aggregation packet is a run of units, each a 16-bit
\* big-endian length and that many bytes
RECURSIVE C19_WellFormed(_)
C19_WellFormed(body) ==
    \/ body = << >>
    \/ /\ Len(body) >= 2
       /\ body[1].src = "length" /\ body[2].src = "length"
       /\ LET n == body[1].a * 256 + body[2].a
          IN /\ Len(body) >= 2 + n
             /\ \A i \in 3..(2 + n) : body[i].src = "nal"
             /\ C19_WellFormed(SubSeq(body, 3 + n, Len(body)))

\* the units of a well-formed aggregation body
RECURSIVE C19_Units(_)
C19_Units(body) ==
    IF body = << >> THEN << >>
    ELSE LET n == body[1].a * 256 + body[2].a
         IN << SubSeq(body, 3, 2 + n) >> \o C19_Units(SubSeq(body, 3 + n, Len(body)))

\* the last call was given NALs no larger than the MTU followed by one
\* larger than the MTU
C19_SmallThenLarge ==
    /\ codec \in VideoCodecs
    /\ Len(sent.nalus) >= 2
    /\ \A i \in 1..(Len(sent.nalus) - 1) : Len(sent.nalus[i]) <= Mtu
    /\ Len(sent.nalus[Len(sent.nalus)]) > Mtu

C20_Large ==
    IF codec \in VideoCodecs
    THEN {j \in 1..Len(sent.nalus) : Len(sent.nalus[j]) > Mtu}
    ELSE {}

\* the fragmentation-unit packets of NAL j, in the order they were sent
C20_FragmentsOf(j) ==
    SelectSeq(sent.packets,
              LAMBDA q : q.kind = "fragment" /\ q.payload[HeaderLength(codec) + 1].a = j)

\* the payloads of the packets frags without their FU headers (the FU
\* indicator and the FU header byte), concatenated
RECURSIVE C20_Stripped(_)
C20_Stripped(frags) ==
    IF frags = << >> THEN << >>
    ELSE SubSeq(Head(frags).payload, HeaderLength(codec) + 2, Len(Head(frags).payload))
         \o C20_Stripped(Tail(frags))

C20_Ceil(a, b) == (a + b - 1) \div b

\* C20 as claimed: the stripped payloads of a large NAL's fragments,
\* concatenated, are the NAL's bytes, and there are ceil(size / mtu) of them
C20_Reassembly_AsClaimed ==
    \A j \in C20_Large :
        /\ C20_Stripped(C20_FragmentsOf(j)) = sent.nalus[j]
        /\ Len(C20_FragmentsOf(j)) = C20_Ceil(Len(sent.nalus[j]), Mtu)

\* C20: the stripped payloads of a large NAL's fragments, concatenated, are
\* the NAL's bytes after its NAL header (one byte for H.264, two for H.265),
\* every FU header is made from that NAL's header, and the number of
\* fragments is ceil((size - header length) / mtu).
C20_Reassembly ==
    \A j \in C20_Large :
        LET frags == C20_FragmentsOf(j)
            h == HeaderLength(codec)
        IN /\ C20_Stripped(frags) = SubSeq(sent.nalus[j], h + 1, Len(sent.nalus[j]))
           /\ Len(frags) = C20_Ceil(Len(sent.nalus[j]) - h, Mtu)
           /\ \A i \in 1..Len(frags) :
                 /\ \A x \in 1..h : frags[i].payload[x].src = "fu-indicator"
                                    /\ frags[i].payload[x].a = j
                 /\ frags[i].payload[h + 1].src = "fu-header"

\* C20 witness: an access unit with a NAL sent as three fragments and a NAL
\* one byte larger than the MTU sent as a single fragment
C20_Witness ==
    /\ \E j \in C20_Large : Len(C20_FragmentsOf(j)) = 3
    /\ \E j \in C20_Large : /\ Len(sent.nalus[j]) = Mtu + 1
                            /\ Len(C20_FragmentsOf(j)) = 1

\* the start and end bits of an FU header byte
C21_StartBit(q) == (q.payload[HeaderLength(codec) + 1].b \div 128) % 2 = 1
C21_EndBit(q) == (q.payload[HeaderLength(codec) + 1].b \div 64) % 2 = 1

\* C21: of the fragmentation-unit packets of a NAL larger than the MTU, for
\* H.264 and H.265 and whatever their number (one included), the first has
\* the start bit, the last has the end bit, and the others have neither.
C21_StartAndEndBits ==
    \A j \in C20_Large :
        LET frags == C20_FragmentsOf(j)
        IN \A i \in 1..Len(frags) :
              /\ C21_StartBit(frags[i]) <=> i = 1
              /\ C21_EndBit(frags[i]) <=> i = Len(frags)

\* C21 for the NALs sent as two fragments or more, where it holds
C21_StartAndEndBitsOfSeveral ==
    \A j \in C20_Large :
        LET frags == C20_FragmentsOf(j)
        IN Len(frags) >= 2 =>
              \A i \in 1..Len(frags) :
                 /\ C21_StartBit(frags[i]) <=> i = 1
                 /\ C21_EndBit(frags[i]) <=> i = Len(frags)

(* --------------------------- bitstream claims -------------------------- *)
\* fields i of the log that are Exp-Golomb fields
C27_Golomb == {i \in 1..Len(bitLog.written) : bitLog.written[i].kind \in {"ue", "se"}}

\* field i was written without an error and, once read, came back as
\* written
C27_ComesBack(i) ==
    /\ ~bitLog.written[i].threw
    /\ i <= Len(bitLog.read) =>
          /\ ~bitLog.read[i].threw
          /\ bitLog.read[i].value = bitLog.written[i].value

\* C27: every unsigned value v >= 0 written with writeUnsignedExpGolomb is
\* returned by readUnsignedExpGolomb, and every signed value (negative, zero
\* or positive) written with writeSignedExpGolomb is returned by
\* readSignedExpGolomb, at any bit offset.
C27_GolombRoundTrip == \A i \in C27_Golomb : C27_ComesBack(i)

\* C27 without the signed value 0, where it holds
C27_GolombRoundTripButZero ==
    \A i \in C27_Golomb :
        (bitLog.written[i].kind = "se" /\ bitLog.written[i].value = 0)
        \/ C27_ComesBack(i)

\* a signed and an unsigned value of more than one byte were written at an
\* odd bit offset and read back
C27_Witness ==
    /\ Len(bitLog.read) = 3
    /\ bitLog.written[1].kind = "u"
    /\ bitLog.written[2].kind = "se" /\ bitLog.written[2].value = 0 - 128
    /\ bitLog.written[3].kind = "ue" /\ bitLog.written[3].value = 65534
    /\ bitLog.read[3].value = 65534

\* value as count bits, most significant first
RECURSIVE C28_Bits(_, _)
C28_Bits(value, count) ==
    IF count = 0 THEN << >>
    ELSE Append(C28_Bits(value \div 2, count - 1), value % 2)

\* the bits of the calls of a log, in order
RECURSIVE C28_BitsOfCalls(_)
C28_BitsOfCalls(calls) ==
    IF calls = << >> THEN << >>
    ELSE C28_Bits(Head(calls).value, Head(calls).count) \o C28_BitsOfCalls(Tail(calls))

\* the bytes a bit sequence of whole bytes makes
RECURSIVE C28_Bytes(_)
C28_Bytes(bits) ==
    IF Len(bits) < 8 THEN << >>
    ELSE << 128 * bits[1] + 64 * bits[2] + 32 * bits[3] + 16 * bits[4]
            + 8 * bits[5] + 4 * bits[6] + 2 * bits[7] + bits[8] >>
         \o C28_Bytes(SubSeq(bits, 9, Len(bits)))

\* positions of arr holding a 3 that follows two zero bytes
C28_Escapes(arr) ==
    {p \in 3..Len(arr) : arr[p] = 3 /\ arr[p - 1] = 0 /\ arr[p - 2] = 0}

\* arr without those bytes
C28_Unescaped(arr) ==
    LET keep == {p \in 1..Len(arr) : p \notin C28_Escapes(arr)}
        RECURSIVE Pick(_)
        Pick(p) == IF p > Len(arr) THEN << >>
                   ELSE (IF p \in keep THEN << arr[p] >> ELSE << >>) \o Pick(p + 1)
    IN Pick(1)

\* the data bytes the writer has been given: the whole bytes of the bits
\* written so far and, once flushed, the pending byte padded with zeros
C28_DataBytes ==
    LET bits == C28_BitsOfCalls(bitLog.written)
        whole == 8 * (Len(bits) \div 8)
    IN IF bitLog.phase = "writing"
       THEN C28_Bytes(SubSeq(bits, 1, whole))
       ELSE C28_Bytes(bits \o [i \in 1..(whole + 8 - Len(bits)) |-> 0])

\* the writer inserted a 3 exactly where two emitted zero bytes were
\* followed by a byte <= 3: no such byte is left unescaped, every escape is
\* followed by such a byte, and without the escapes the bytes are the data
C28_InsertedExactly ==
    /\ \A p \in 3..Len(writer.arr) :
          (writer.arr[p - 1] = 0 /\ writer.arr[p - 2] = 0) => writer.arr[p] >= 3
    /\ \A p \in C28_Escapes(writer.arr) :
          p < Len(writer.arr) /\ writer.arr[p + 1] <= 3
    /\ C28_Unescaped(writer.arr) = C28_DataBytes

\* the bits read so far are the bits written, from the first on
C28_ReadsBack ==
    /\ \A i \in 1..Len(bitLog.read) : ~bitLog.read[i].threw
    /\ LET bits == C28_BitsOfCalls(bitLog.read)
       IN bits = SubSeq(C28_BitsOfCalls(bitLog.written), 1, Len(bits))

\* C28: for bits written with any split into writeBits calls (whole-byte
\* path or bit-by-bit path) and flushed, the writer inserts 0x03 exactly
\* when the last two emitted bytes are 00 00 and the next byte is <= 3, and
\* reading the buffer with any split into readBits calls returns the bits
\* written.
C28_EmulationRoundTrip == C28_InsertedExactly /\ C28_ReadsBack

\* C28 witness: an escape inserted on the bit-by-bit path (the bytes are
\* not aligned with the calls), read across with a split that is not the
\* split of the writes
C28_Witness ==
    /\ bitLog.phase = "reading"
    /\ bitLog.written[1].count = 1
    /\ C28_Escapes(writer.arr) # {}
    /\ Len(bitLog.read) = 2
    /\ bitLog.read[1].count = 16 /\ bitLog.read[2].count = 8

\* the data bits of the reader's buffer: eight for every byte that is not
\* an emulation-prevention byte
C29_DataBits == 8 * Len(C28_Unescaped(reader.buffer))

\* the bits left for call i of the read log: none once a call has failed
C29_Left(i) ==
    IF \E j \in 1..(i - 1) : bitLog.read[j].threw THEN 0
    ELSE C29_DataBits - BitsOf(SubSeq(bitLog.read, 1, i - 1))

\* C29: on every buffer, a readBits call that asks for more bits than are
\* left fails with an error, also when the buffer ends with the
\* emulation-prevention sequence 00 00 03.
C29_ReadPastEndFails ==
    \A i \in 1..Len(bitLog.read) :
        bitLog.read[i].count > C29_Left(i) => bitLog.read[i].threw

C29_EndsWithEscape == Len(reader.buffer) \in C28_Escapes(reader.buffer)

\* C29 on the buffers that do not end with 00 00 03, where it holds
C29_ReadPastEndFailsButEscape == C29_EndsWithEscape \/ C29_ReadPastEndFails

\* rewriteSPSVUI on every SPS of SpsSyntaxes
InitSps ==
    /\ InitConnection
    /\ InitPacketizer("opus", 0, Word32(0, 0))
    /\ InitBitstream
    /\ sps \in SpsSyntaxes
    /\ rewritten = << >>
    /\ NoWebRtc /\ NoApp

NextSps == RewriteSPSVUI

SpecSps == InitSps /\ [][NextSps]_vars

\* the calls of rewriteSPSVUI that returned a buffer
Rewrites == {i \in 1..Len(rewritten) : ~rewritten[i].threw}

\* C26: the buffer rewriteSPSVUI returns ends with rbsp_stop_one_bit followed
\* only by the zero bits that complete the same byte: the last byte of the
\* buffer holds the stop bit, at whatever bit position it was written, and
\* nothing but zero bits after it.
C26_StopBitInLastByte ==
    \A i \in Rewrites :
        LET out == rewritten[i].out
            stopBit == rewritten[i].stopBit
        IN out[Len(out)] % Pow2(8 - stopBit) = Pow2(7 - stopBit)

\* C26 where the stop bit is not the last bit of its byte, where it holds
C26_StopBitInLastByteUnlessFull ==
    \A i \in Rewrites :
        LET out == rewritten[i].out
            stopBit == rewritten[i].stopBit
        IN stopBit # 7 => out[Len(out)] % Pow2(8 - stopBit) = Pow2(7 - stopBit)

\* the stop bit was written at each bit position but the last
C26_Position(k) == \E i \in Rewrites : rewritten[i].stopBit = k
C26_Position0 == C26_Position(0)
C26_Position3 == C26_Position(3)
C26_Position6 == C26_Position(6)

\* the buffer that call i of rewriteSPSVUI was given
RewriteInput(i) == IF i = 1 THEN SpsNal(sps) ELSE rewritten[i - 1].out

\* the syntax elements a decoder reads from the SPS in buffer
Parsed(buffer) == spsFields(Decoding(buffer))

\* the output of call i parses with the VUI and the bitstream restriction
\* present, no reordering, and a decoded picture buffer of the
\* max_num_ref_frames of the SPS that was rewritten
RestrictedOutput(i) ==
    LET source == Parsed(RewriteInput(i))
        output == Parsed(rewritten[i].out)
    IN /\ ~output.threw
       /\ Field(output.f, "vui_parameters_present_flag") = 1
       /\ Field(output.f, "bitstream_restriction_flag") = 1
       /\ Field(output.f, "num_reorder_frames") = 0
       /\ Field(output.f, "max_dec_frame_buffering") = Field(source.f, "max_num_ref_frames")

\* C22: for every SPS on which rewriteSPSVUI succeeds (source without VUI,
\* with a VUI without bitstream restriction, or with a VUI with one), the
\* output parses with vui_parameters_present_flag = 1,
\* bitstream_restriction_flag = 1, max_num_reorder_frames = 0 and
\* max_dec_frame_buffering equal to the max_num_ref_frames of the same SPS.
C22_RestrictedOutput == \A i \in Rewrites : RestrictedOutput(i)

\* C22 for the SPSs whose scaling lists, if any, carry all their deltas,
\* where it holds
C22_RestrictedOutputOfFullLists ==
    sps.scaling # "truncated" => \A i \in Rewrites : RestrictedOutput(i)

\* an SPS of each kind of source was rewritten
C22_NoVui ==
    /\ 1 \in Rewrites /\ sps.scaling # "truncated"
    /\ sps.vui_parameters_present_flag = 0
C22_VuiWithoutRestriction ==
    /\ 1 \in Rewrites
    /\ sps.vui_parameters_present_flag = 1 /\ sps.restriction = "absent"
C22_VuiWithRestriction ==
    /\ 1 \in Rewrites
    /\ sps.vui_parameters_present_flag = 1 /\ sps.restriction = "other"

\* an SPS with truncated scaling lists was rewritten
C22_TruncatedRewritten == 1 \in Rewrites /\ sps.scaling = "truncated"

\* the five leading values of the bitstream restriction a decoder reads from
\* buffer, NoArg for those it does not find
RestrictionParsed(buffer) ==
    LET d == Parsed(buffer)
    IN [name \in {"motion_vectors_over_pic_boundaries_flag", "max_bytes_per_pic_denom",
                  "max_bits_per_mb_denom", "log2_max_mv_length_horizontal",
                  "log2_max_mv_length_vertical"} |->
           IF d.threw THEN NoArg ELSE Field(d.f, name)]

\* the values addBitstreamRestriction writes
RestrictionForced ==
    [motion_vectors_over_pic_boundaries_flag |-> 1, max_bytes_per_pic_denom |-> 2,
     max_bits_per_mb_denom |-> 1, log2_max_mv_length_horizontal |-> 16,
     log2_max_mv_length_vertical |-> 16]

\* C23: for every SPS on which rewriteSPSVUI succeeds, whatever values the
\* source carried, the bitstream restriction of the output has
\* motion_vectors_over_pic_boundaries_flag = 1, max_bytes_per_pic_denom = 2,
\* max_bits_per_mb_denom = 1, log2_max_mv_length_horizontal = 16 and
\* log2_max_mv_length_vertical = 16.
C23_RestrictionForced ==
    \A i \in Rewrites : RestrictionParsed(rewritten[i].out) = RestrictionForced

\* what holds instead on the SPSs whose scaling lists carry all their deltas:
\* the five values are those of the source when it had a bitstream
\* restriction, and those of addBitstreamRestriction when it had none
C23_RestrictionCopiedOrAdded ==
    sps.scaling # "truncated" =>
        \A i \in Rewrites :
            LET source == RestrictionParsed(RewriteInput(i))
                output == RestrictionParsed(rewritten[i].out)
            IN IF Field(Parsed(RewriteInput(i)).f, "bitstream_restriction_flag") = 1
               THEN output = source
               ELSE output = RestrictionForced

\* an SPS whose bitstream restriction has other values than the forced ones
\* was rewritten
C23_OtherRestrictionRewritten == 1 \in Rewrites /\ sps.restriction = "other"

\* profile, level, picture dimensions and max_num_ref_frames
PreservedFields ==
    {"profile_idc", "level_idc", "max_num_ref_frames", "pic_width_in_mbs_minus1",
     "pic_height_in_map_units_minus1", "frame_mbs_only_flag", "frame_cropping_flag",
     "frame_crop_left_offset", "frame_crop_right_offset", "frame_crop_top_offset",
     "frame_crop_bottom_offset"}

\* the output of call i parses with the preserved fields of its input
Preserved(i) ==
    LET source == Parsed(RewriteInput(i))
        output == Parsed(rewritten[i].out)
    IN /\ ~output.threw
       /\ \A name \in PreservedFields : Field(output.f, name) = Field(source.f, name)

\* rewriting what rewriteSPSVUI returned succeeds and returns the same bytes
Idempotent == \A i \in Rewrites : i > 1 => rewritten[i].out = rewritten[i - 1].out
SecondSucceeds == \A i \in 2..Len(rewritten) : ~rewritten[i].threw

\* C24: rewriteSPSVUI is idempotent: for every SPS x on which it succeeds,
\* rewriteSPSVUI(rewriteSPSVUI(x)) succeeds and equals rewriteSPSVUI(x), and
\* profile, level, picture dimensions and max_num_ref_frames of the output
\* equal those of x.
C24_IdempotentAndPreserving ==
    /\ SecondSucceeds
    /\ Idempotent
    /\ \A i \in Rewrites : Preserved(i)

\* the parts of C24 that hold: idempotence on every SPS, preservation on
\* those whose scaling lists carry all their deltas
C24_IdempotentOnly == SecondSucceeds /\ Idempotent
C24_PreservingOfFullLists ==
    sps.scaling # "truncated" => \A i \in Rewrites : Preserved(i)

\* an SPS was rewritten twice: one with cropping, and one with truncated
\* scaling lists
C24_RewrittenTwice == 2 \in Rewrites /\ sps.frame_cropping_flag = 1
C24_TruncatedRewrittenTwice == 2 \in Rewrites /\ sps.scaling = "truncated"

(* ----------------------- WebRtcConnWrapper claims ---------------------- *)
\* a wrapper, the access units of one SPS
InitRtc ==
    /\ InitConnection
    /\ InitPacketizer("opus", 0, Word32(0, 0))
    /\ InitBitstream
    /\ sps \in RtcSpsSyntaxes
    /\ rewritten = << >>
    /\ NoWebRtc /\ NoApp

NextRtc ==
    \/ InitWebRtc
    \/ \E state \in PeerStates : WebRtcStateChange(state)
    \/ WebRtcClose
    \/ \E videoCodec \in RtcVideoCodecs, webRtcParams \in BOOLEAN :
          WebRtcSetPacketizer(videoCodec, webRtcParams)
    \/ \E frametime \in Frametimes, daveReady \in BOOLEAN :
          WebRtcSendAudioFrame(frametime, daveReady)
    \/ \E nalus \in RtcVideoFrames(sps), frametime \in Frametimes, daveReady \in BOOLEAN :
          WebRtcSendVideoFrame(nalus, frametime, daveReady)

SpecRtc == InitRtc /\ [][NextRtc]_vars

\* the two calls that send a frame
SendCalls == {"sendAudioFrame", "sendVideoFrame"}

\* the transport is not connected, or the track of the call has no packetizer
NotReadyFor(w, op) ==
    \/ w.webRtcConn # "connected"
    \/ op = "sendAudioFrame" /\ ~w.audioPacketizer
    \/ op = "sendVideoFrame" /\ ~w.videoPacketizer

\* C30: sendAudioFrame and sendVideoFrame invoked while the transport is not
\* connected, or before a packetizer has been set for the track, send
\* nothing, do not call the secure session, leave the RTP timestamp of the
\* track unchanged and raise no error.
C30_NoSendWhileNotReady ==
    [][\A op \in SendCalls :
          (rtc'.last # rtc.last /\ rtc'.last.op = op /\ NotReadyFor(rtc, op)) =>
              /\ rtc'.last.sent = << >>
              /\ rtc'.last.encrypts = 0
              /\ ~rtc'.last.threw
              /\ rtc'.audioTimestamp = rtc.audioTimestamp
              /\ rtc'.videoTimestamp = rtc.videoTimestamp
              /\ rtc'.frames = rtc.frames]_vars

\* a video frame with a truncated SPS was given to sendVideoFrame on a
\* transport that is no longer connected, after a frame was sent while it was
C30_Witness ==
    /\ rtc.last.op = "sendVideoFrame"
    /\ rtc.last.frame = << TruncatedSps(sps), IdrNal >>
    /\ rtc.last.sent = << >> /\ ~rtc.last.threw
    /\ rtc.webRtcConn = "disconnected"
    /\ rtc.videoPacketizer /\ rtc.videoCodec = "H264"
    /\ rtc.videoTimestamp > 0 /\ rtc.last.timestamp0 = rtc.videoTimestamp

\* a frame was given to a connected transport whose track has no packetizer
C30_WitnessNoVideoPacketizer ==
    /\ rtc.last.op = "sendVideoFrame" /\ rtc.last.sent = << >>
    /\ rtc.webRtcConn = "connected" /\ rtc.audioPacketizer /\ ~rtc.videoPacketizer
C30_WitnessNoAudioPacketizer ==
    /\ rtc.last.op = "sendAudioFrame" /\ rtc.last.sent = << >>
    /\ rtc.webRtcConn = "connected" /\ ~rtc.audioPacketizer

\* rewriteSPSVUI throws on an SPS of the access unit
RewriteFails(nalus) ==
    \E i \in 1..Len(nalus) :
        getUnitType(nalus[i]) = H264NalUnitTypes_SPS /\ rewriteSPSVUI(nalus[i]).threw

\* a step of sendVideoFrame that rewrites the SPSs of its frame, on one of
\* which rewriteSPSVUI throws
SendsWithFailedRewrite ==
    /\ rtc'.last # rtc.last
    /\ rtc'.last.op = "sendVideoFrame"
    /\ ~NotReadyFor(rtc, "sendVideoFrame")
    /\ rtc.videoCodec = "H264"
    /\ RewriteFails(rtc'.last.frame)

\* C25: if rewriting an SPS NAL fails (truncated or otherwise unparsable SPS,
\* or any error raised inside the reader or the writer), sending the video
\* frame raises no error and forwards the access unit with the original,
\* unmodified SPS bytes.
C25_FailedRewriteForwardsOriginal ==
    [][SendsWithFailedRewrite =>
          /\ ~rtc'.last.threw
          /\ Len(rtc'.last.sent) = 1
          /\ rtc'.last.sent[1].frame = rtc'.last.frame]_vars

\* what the code does instead: the error of rewriteSPSVUI leaves
\* sendVideoFrame, nothing is sent and the timestamp stays
C25_FailedRewriteThrows ==
    [][SendsWithFailedRewrite =>
          /\ rtc'.last.threw
          /\ rtc'.last.sent = << >>
          /\ rtc'.last.encrypts = 0
          /\ rtc'.videoTimestamp = rtc.videoTimestamp]_vars

\* sendVideoFrame was given a truncated SPS, and an SPS that is not
\* truncated on which rewriteSPSVUI throws, on a connected H.264 track
C25_TruncatedSpsSent ==
    /\ rtc.last.op = "sendVideoFrame" /\ rtc.last.threw
    /\ rtc.last.frame = << TruncatedSps(sps), IdrNal >>
C25_WholeSpsSent ==
    /\ rtc.last.op = "sendVideoFrame" /\ rtc.last.threw
    /\ rtc.last.frame = << SpsNal(sps), IdrNal >>

\* a frame whose SPS was rewritten was sent
C25_RewrittenSent ==
    /\ rtc.last.op = "sendVideoFrame"
    /\ Len(rtc.last.sent) = 1
    /\ rtc.last.sent[1].startCode3
    /\ rtc.last.sent[1].frame # rtc.last.frame

(* ------------------------ further lifecycle claims --------------------- *)
\* the WebSockets that are connecting or open
LiveChannels == {c \in Channels : sockets[c].readyState \in {"CONNECTING", "OPEN"}}

\* C34: at any time at most one WebSocket of the connection is connecting
\* or open, whatever the order of stop(), setSession()/setTokens() and the
\* close events of the sockets closed before.
C34_OneLiveChannel == Cardinality(LiveChannels) <= 1

\* C35: the resuming flag is never stale: an open event sends Resume only
\* on a socket the close handler created (the socket before it closed with a
\* resumable code while the connection was started); on a socket that
\* setSession(), setTokens() or start() created, after a stop() or a terminal
\* close, it sends Identify.
C35_ResumeOnlyAfterResumableClose ==
    (ev.op = "open" /\ ev.branch = "RESUME") => sockets[ev.ch].byReconnect

\* what the open handler goes by: the flag as the last close handler that
\* reconnected left it, whichever socket opens
C35_ResumeFollowsFlag ==
    [][\A c \in Channels :
          (ev'.op = "open" /\ ev'.ch = c /\ sockets[c].readyState = "CONNECTING"
           /\ sockets'[c].readyState = "OPEN")
          => /\ ev'.branch = (IF status.resuming THEN "RESUME" ELSE "IDENTIFY")
             /\ ~status'.resuming]_vars

\* Resume sent on the only socket there is, one that setSession() created
\* after stop()
C35_StaleAfterStop ==
    /\ ev.op = "open" /\ ev.branch = "RESUME" /\ ev.ch = ws
    /\ ~sockets[ws].byReconnect
    /\ \A c \in Channels \ {ws} : sockets[c].readyState = "NONE"

(* --------------------------- further DAVE claims ----------------------- *)
\* C36: whenever the downgraded flag is set, the active DAVE protocol
\* version is 0, whatever prepare-epoch, prepare-transition (id 0 included)
\* and execute-transition messages arrive.
C36_DowngradedMeansVersionZero == daveDowngraded => daveProtocolVersion = 0

\* the flag is set by executing a change to version 0 only
C36_SetByDowngrade ==
    [][(~daveDowngraded /\ daveDowngraded') => daveProtocolVersion' = 0]_vars

\* the flag still set after DAVE_PREPARE_TRANSITION {transition_id: 0}
\* switched to a version above 0
C36_UpgradedByTransitionZero ==
    /\ ev.op = "DAVE_PREPARE_TRANSITION" /\ ev.arg = 0
    /\ daveDowngraded /\ daveProtocolVersion > 0

\* the flag still set after DAVE_PREPARE_EPOCH {epoch: 1} set a version
\* above 0
C36_UpgradedByEpoch ==
    /\ ev.op = "DAVE_PREPARE_EPOCH" /\ ev.arg = 1
    /\ daveDowngraded /\ daveProtocolVersion > 0

\* the replies to a commit or welcome among the messages a handler sent
Replies(out) ==
    {i \in DOMAIN out : out[i].op \in {"DAVE_TRANSITION_READY", "MLS_INVALID_COMMIT_WELCOME"}}

\* C37: handling one MLS_ANNOUNCE_COMMIT_TRANSITION message calls
\* processCommit exactly once, never processWelcome, and sends at most one
\* reply (one transition-ready or one invalid-commit).
C37_CommitHandledOnce ==
    ev.op = "MLS_ANNOUNCE_COMMIT_TRANSITION"
    => /\ ev.calls = << "processCommit" >>
       /\ Cardinality(Replies(ev.out)) <= 1

\* the same, of a connection that has a secure session when the message
\* arrives
C37_CommitHandledOnceWithSession ==
    [][(ev'.op = "MLS_ANNOUNCE_COMMIT_TRANSITION" /\ ev'.branch # "dropped"
        /\ daveSession.exists
        /\ (ev' # ev \/ daveSession' # daveSession))
       => /\ ev'.calls = << "processCommit" >>
          /\ Cardinality(Replies(ev'.out)) <= 1]_vars

\* a commit processed, then processWelcome called on the same message, and
\* two replies sent
C37_CommitAlsoWelcomed ==
    /\ ev.op = "MLS_ANNOUNCE_COMMIT_TRANSITION"
    /\ ev.calls = << "processCommit", "processWelcome" >>
    /\ Cardinality(Replies(ev.out)) = 2

\* a commit that arrived as a Buffer and was not handled at all
C37_CommitDropped ==
    /\ ev.op = "MLS_ANNOUNCE_COMMIT_TRANSITION" /\ ev.branch = "dropped"
    /\ daveSession.exists /\ ev.calls = << >> /\ ev.out = << >>

\* a commit handled without a secure session: no call, one invalid-commit
C37_CommitWithoutSession ==
    /\ ev.op = "MLS_ANNOUNCE_COMMIT_TRANSITION"
    /\ ev.calls = << >>
    /\ Cardinality(Replies(ev.out)) = 1

(* ------------------------ Streamer claims ------------------------------ *)
\* the readiness callback of the connection has been invoked
ReadyInvoked == \E r \in ReadyIds : readyCalls[r].calls > 0

\* C33: once the connection's readiness callback has been invoked, the
\* promise joinVoice / createStream returned is resolved (with the media
\* connection)
C33_ResolvedOnceReady ==
    (ConnectionMade /\ ReadyInvoked) => streamer.promise = "resolved"

\* a joinVoice whose connection went through READY and the acknowledgement,
\* whose callback was invoked, and whose promise is still pending
C33_PendingAfterReady ==
    /\ streamer.method = "joinVoice" /\ ReadyInvoked /\ streamer.promise = "pending"

\* the same for createStream
C33_StreamPendingAfterReady ==
    /\ streamer.method = "createStream" /\ ReadyInvoked /\ streamer.promise = "pending"

(* ------------------------ playStream claims ---------------------------- *)
\* how many times cleanup function f was executed
TimesRan(f) == Cardinality({i \in 1..Len(play.ran) : play.ran[i] = f})

\* the cleanup functions registered so far
Registered == {play.cleanupFuncs[i] : i \in 1..Len(play.cleanupFuncs)}

\* the stream has ended or the abort signal has fired
EndedOrAborted == play.vStream.ended \/ play.aborted

\* C39: once the video stream has finished or the abort signal has fired,
\* every cleanup function that was ever registered, the preview decoder's
\* included, has been executed exactly once
C39_CleanupExactlyOnce ==
    EndedOrAborted => \A f \in Registered : TimesRan(f) = 1

\* what the code does keep: no cleanup function is executed twice, and the
\* ones executed are those registered when cleanup() ran, in their order
C39_CleanupAtMostOnce ==
    /\ \A f \in Registered : TimesRan(f) <= 1
    /\ Len(play.ran) <= Len(play.cleanupFuncs)
    /\ play.ran = SubSeq(play.cleanupFuncs, 1, Len(play.ran))
    /\ play.cleanedUp <=> play.ran # << >>

\* the decoder was initialised after cleanup() had run: its two cleanup
\* functions are registered and never executed
C39_DecoderNeverFreed ==
    /\ play.cleanedUp /\ play.decoder = "ready"
    /\ TimesRan("stopStream") = 1
    /\ TimesRan("decoder.free") = 0 /\ TimesRan("off(updatePreview)") = 0

\* the signal aborted while playStream awaited createStream(): the stream
\* played to its end and no cleanup function was executed
C39_AbortBeforeListener ==
    /\ play.aborted /\ play.vStream.ended /\ ~play.cleanedUp
    /\ play.promise = "pending" /\ "stopStream" \in Registered

\* the orderings in which the claim's case goes well: the decoder was
\* initialised first, then the stream ended or was aborted
C39_AllRanOnce ==
    /\ EndedOrAborted /\ play.decoder = "ready" /\ play.cleanedUp
    /\ \A f \in Registered : TimesRan(f) = 1

\* playStream set a burst up: there is audio and a burst time
Bursting == play.phase = "playing" /\ play.audio /\ play.readrateInitialBurst # NoArg

\* both streams run with sync and pacing disabled
BurstMode ==
    /\ ~play.vStream.sync /\ ~play.aStream.sync
    /\ play.vStream.noSleep /\ play.aStream.noSleep

\* both streams run with sync and pacing enabled
PacedMode ==
    /\ play.vStream.sync /\ play.aStream.sync
    /\ ~play.vStream.noSleep /\ ~play.aStream.noSleep

\* C31: with an initial burst time both linked streams run with sync and
\* pacing disabled, the handler registered, as long as no video pts event
\* has reached burstTime * 1000; from the first event that does, both run
\* with sync and pacing enabled and the handler is removed, and later pts
\* events change nothing (the pts of a stream never decreases, so the events
\* so far reached the threshold exactly when the last one did)
C31_BurstUntilThreshold ==
    Bursting =>
        IF play.vStream.pts < play.readrateInitialBurst * MsPerSecond
        THEN BurstMode /\ play.stopBurst
        ELSE PacedMode /\ ~play.stopBurst

\* a burst that ended at the threshold event and saw a later pts event
C31_BurstEnded ==
    /\ Bursting /\ PacedMode /\ ~play.stopBurst
    /\ play.vStream.pts > play.readrateInitialBurst * MsPerSecond

\* a burst still running after video frames were sent
C31_BurstRunning ==
    /\ Bursting /\ BurstMode /\ play.stopBurst /\ play.vStream.pts > 0

\* the distance of the two streams' last emitted pts
PtsDistance ==
    IF play.vStream.pts >= play.aStream.pts
    THEN play.vStream.pts - play.aStream.pts
    ELSE play.aStream.pts - play.vStream.pts

\* two linked streams with sync enabled
Synced == play.phase = "playing" /\ play.audio /\ play.vStream.sync /\ play.aStream.sync

C32_ApartAfterBurst ==
    /\ Synced /\ play.readrateInitialBurst # NoArg
    /\ ~play.vStream.ended /\ ~play.aStream.ended
    /\ PtsDistance > TickMs

\* the audio ended and the video, held by nobody, ran on
C32_ApartAfterEnd ==
    /\ Synced /\ play.readrateInitialBurst = NoArg
    /\ play.aStream.ended /\ PtsDistance > TickMs

(* ------------------------ further packetizer claims -------------------- *)
\* the NAL units a packet of _sendNonFragmented carries: the payload itself,
\* or as many as the aggregate has length prefixes
NalsCarried(packet) ==
    IF packet.kind = "single" THEN 1
    ELSE Cardinality({i \in DOMAIN packet.payload :
                         packet.payload[i].src = "length" /\ packet.payload[i].b = 1})

\* C38: every packet sendFrame emits through _sendNonFragmented carries at
\* least one NAL unit: no aggregation packet without NAL units is sent, for
\* any access unit, one with a NAL unit of exactly the MTU included.
C38_NoEmptyAggregate ==
    codec \in VideoCodecs
    => \A i \in DOMAIN sent.packets :
          sent.packets[i].kind \in {"single", "aggregate"}
          => NalsCarried(sent.packets[i]) >= 1

\* the same for the access units whose NAL units are all shorter than the
\* MTU: their aggregate is never empty when it is flushed
C38_NoEmptyAggregateBelowMtu ==
    (codec \in VideoCodecs /\ \A n \in DOMAIN sent.nalus : Len(sent.nalus[n]) < Mtu)
    => \A i \in DOMAIN sent.packets :
          sent.packets[i].kind \in {"single", "aggregate"}
          => NalsCarried(sent.packets[i]) >= 1

\* an access unit of one NAL unit of exactly the MTU: an aggregation packet
\* of the header alone, then the NAL unit
C38_EmptyAggregateSent ==
    /\ codec \in VideoCodecs
    /\ Len(sent.nalus) = 1 /\ Len(sent.nalus[1]) = Mtu
    /\ Len(sent.packets) = 2
    /\ sent.packets[1].kind = "aggregate" /\ NalsCarried(sent.packets[1]) = 0
    /\ Len(sent.packets[1].payload) = HeaderLength(codec)
    /\ sent.packets[2].kind = "single" /\ sent.packets[2].marker

====
